---- MODULE Spec2Model ----
(***************************************************************************)
(* Verification model of the usage tracker's aggregation core:             *)
(*   usage/reader.rs      event parser and per-file deduplicator           *)
(*   usage/pricing.rs     pricing resolver                                 *)
(*   usage/cache.rs       incremental cache manager and aggregation        *)
(*   usage/background.rs  timer-driven refresh loop                        *)
(*   commands.rs          synchronous command path                         *)
(*                                                                         *)
(* Four specifications share the operators that model the handlers:       *)
(*   Spec       the cache manager driven by whole refresh calls, with the  *)
(*              disk changing between calls                                *)
(*   RaceSpec   one incremental refresh split at its file-system calls,    *)
(*              interleaved with an external writer                        *)
(*   SchedSpec  the timer task and the command threads contending for the  *)
(*              cache mutex, with the interval timer's clock               *)
(*   LiveSpec   SchedSpec with the fairness the runtime provides           *)
(***************************************************************************)
EXTENDS Integers, Sequences, FiniteSets, TLC

(***************************************************************************)
(* Option<T>: None is the empty sequence, Some(x) the one-element one.     *)
(***************************************************************************)
None == <<>>
Some(x) == <<x>>
IsSome(o) == o /= <<>>
Unwrap(o) == o[1]
UnwrapOr(o, d) == IF o = <<>> THEN d ELSE o[1]

\* The element of a one-element set.  The({e(x) : x \in {v}}) is e(v) with
\* v computed once.
The(S) == CHOOSE x \in S : TRUE

Max2(a, b) == IF a >= b THEN a ELSE b
Min2(a, b) == IF a <= b THEN a ELSE b

(***************************************************************************)
(* Bounds of the model.                                                    *)
(***************************************************************************)
\* Most lines a source file holds.
MaxLines == 2
\* Most changes the environment makes to the disk in one behaviour.
MaxWrites == 2

(***************************************************************************)
(* usage/models.rs: the raw event and the usage block.                     *)
(***************************************************************************)
Usage(i, o, cc, cr) ==
    [input_tokens |-> i, output_tokens |-> o,
     cache_creation_tokens |-> cc, cache_read_tokens |-> cr]

Message(id, model, usage) == [id |-> id, model |-> model, usage |-> usage]

SessionEvent(ty, msg, ts, cost, usage, mid, rid) ==
    [event_type |-> ty, message |-> msg, timestamp |-> ts, cost |-> cost,
     usage |-> usage, message_id |-> mid, request_id |-> rid]

\* A timestamp string: its shape and the instant (minutes since the epoch)
\* it denotes.  "utc" is ISO-8601 without offset or with a Z suffix.
TsUtc(m) == Some([shape |-> "utc", minutes |-> m])
TsOffset(m) == Some([shape |-> "offset", minutes |-> m])
TsGarbage == Some([shape |-> "garbage", minutes |-> 0])

MinutesPerDay == 24 * 60

(***************************************************************************)
(* usage/pricing.rs                                                        *)
(***************************************************************************)
\* Rates per million tokens, in hundredths of a dollar.
SonnetPricing == [input |-> 300, output |-> 1500, cache_creation |-> 375, cache_read |-> 30]
OpusPricing == [input |-> 1500, output |-> 7500, cache_creation |-> 1875, cache_read |-> 150]
HaikuPricing == [input |-> 25, output |-> 125, cache_creation |-> 30, cache_read |-> 3]

\* Model names of the corpus and the tier the substring tests put them in.
get_pricing(model) ==
    CASE model \in {"claude-opus-4-20250514", "claude-3-opus"} -> OpusPricing
      [] model \in {"claude-3-haiku", "claude-3-5-haiku"} -> HaikuPricing
      [] OTHER -> SonnetPricing

\* Round half away from zero of n / d, for n >= 0 and d > 0.
RoundDiv(n, d) == (2 * n + d) \div (2 * d)

\* Costs are counted in nano-dollars; six decimals of a dollar are a
\* multiple of NanosPerMicro.
NanosPerMicro == 10 * 10 * 10
round6(nanos) == RoundDiv(nanos, NanosPerMicro) * NanosPerMicro

\* tokens / 1e6 * rate, summed and rounded to 6 decimals.
calculate_cost(model, input_tokens, output_tokens, cache_creation_tokens, cache_read_tokens) ==
    LET p == get_pricing(model)
    IN  round6(10 * (input_tokens * p.input + output_tokens * p.output
                     + cache_creation_tokens * p.cache_creation
                     + cache_read_tokens * p.cache_read))

(***************************************************************************)
(* usage/reader.rs: one event to one entry.                                *)
(***************************************************************************)
\* A parser that takes the instant of any timestamp string.
parse_any_timestamp(ts) == Some(ts.minutes)

\* A string without offset (a trailing 'Z' apart) parses as UTC; any other
\* string does not.
parse_timestamp(ts) ==
    IF ts.shape = "utc" THEN Some(ts.minutes) ELSE None

extract_model(event) ==
    IF IsSome(event.message) /\ IsSome(Unwrap(event.message).model)
    THEN Unwrap(Unwrap(event.message).model)
    ELSE "claude-3-5-sonnet"

MessageUsage(event) ==
    IF IsSome(event.message) THEN Unwrap(event.message).usage ELSE None

has_tokens(source) ==
    UnwrapOr(source.input_tokens, 0) > 0 \/ UnwrapOr(source.output_tokens, 0) > 0

\* A choice of the token source that does not look at the event's kind.
extract_tokens_top_first(event) ==
    LET present == SelectSeq(<<event.usage, MessageUsage(event)>>,
                             LAMBDA s : IsSome(s))
        valid == SelectSeq(present, LAMBDA s : has_tokens(Unwrap(s)))
    IN  IF valid = <<>> THEN None
        ELSE Some([tokens |-> Unwrap(valid[1]), model |-> extract_model(event)])

\* The token sources in priority order, the first one with tokens wins.
extract_tokens_and_model(event) ==
    LET is_assistant == event.event_type = Some("assistant")
        token_sources == IF is_assistant
                         THEN <<MessageUsage(event), event.usage>>
                         ELSE <<event.usage, MessageUsage(event)>>
        present == SelectSeq(token_sources, LAMBDA s : IsSome(s))
        valid == SelectSeq(present, LAMBDA s : has_tokens(Unwrap(s)))
    IN  IF valid = <<>> THEN None
        ELSE Some([tokens |-> Unwrap(valid[1]), model |-> extract_model(event)])

\* The entry of an event whose timestamp parsed and whose tokens were found.
usage_entry(event, timestamp, tokens, model) ==
    LET i == UnwrapOr(tokens.input_tokens, 0)
        o == UnwrapOr(tokens.output_tokens, 0)
        cc == UnwrapOr(tokens.cache_creation_tokens, 0)
        cr == UnwrapOr(tokens.cache_read_tokens, 0)
    IN  [timestamp |-> timestamp,
         input_tokens |-> i, output_tokens |-> o,
         cache_creation_tokens |-> cc, cache_read_tokens |-> cr,
         cost_usd |-> IF IsSome(event.cost) THEN Unwrap(event.cost)
                      ELSE calculate_cost(model, i, o, cc, cr),
         model |-> model,
         message_id |-> IF IsSome(event.message_id) THEN Unwrap(event.message_id)
                        ELSE IF IsSome(event.message)
                             THEN UnwrapOr(Unwrap(event.message).id, "")
                             ELSE "",
         request_id |-> UnwrapOr(event.request_id, "unknown")]

process_event(event) ==
    LET entry(timestamp, tm) ==
            IF ~IsSome(timestamp) \/ ~IsSome(tm) THEN None
            ELSE Some(usage_entry(event, Unwrap(timestamp),
                                  Unwrap(tm).tokens, Unwrap(tm).model))
    IN  IF ~IsSome(event.timestamp) THEN None
        ELSE entry(parse_timestamp(Unwrap(event.timestamp)),
                   extract_tokens_and_model(event))

\* message.id first, then the top-level message_id; both ids must be present.
get_dedup_key(event) ==
    LET message_id == IF IsSome(event.message) /\ IsSome(Unwrap(event.message).id)
                      THEN Unwrap(event.message).id
                      ELSE event.message_id
        request_id == event.request_id
    IN  IF IsSome(message_id) /\ IsSome(request_id)
        THEN Some(Unwrap(message_id) \o ":" \o Unwrap(request_id))
        ELSE None

(***************************************************************************)
(* usage/reader.rs: read_jsonl_file.  A line is a blank, a string that is  *)
(* not structured data, or an event.  The map from keys to entries is a    *)
(* sequence of <<key, entry>> pairs; an insert under a key already present *)
(* replaces the entry in place.                                            *)
(***************************************************************************)
BlankLine == [kind |-> "blank"]
BadLine == [kind |-> "bad"]
EventLine(e) == [kind |-> "event", event |-> e]

\* An insert that leaves the entry of a key already present alone.
MapKeepFirst(m, key, entry) ==
    IF \E i \in DOMAIN m : m[i][1] = key THEN m
    ELSE Append(m, <<key, entry>>)

RECURSIVE MapInsert(_, _, _)
MapInsert(m, key, entry) ==
    IF m = <<>> THEN << <<key, entry>> >>
    ELSE IF Head(m)[1] = key THEN << <<key, entry>> >> \o Tail(m)
    ELSE <<Head(m)>> \o MapInsert(Tail(m), key, entry)

\* Display of a DateTime<Utc>: the date, the time of day with ':' between
\* its fields, and the zone.
format_timestamp(minutes) ==
    ToString(minutes \div MinutesPerDay) \o " "
        \o ToString((minutes % MinutesPerDay) \div 60) \o ":"
        \o ToString(minutes % 60) \o " UTC"

\* A line that is structured data and a usage event gives an entry.
parse_line(line) ==
    IF line.kind = "event" THEN process_event(line.event) ELSE None

\* The key an entry is stored under: the dedup key of its event, or one
\* made of the line number and the timestamp.
entry_key(event, line_num, entry) ==
    LET key == get_dedup_key(event)
    IN  IF IsSome(key) THEN Unwrap(key)
        ELSE "no_dedup_" \o ToString(line_num) \o "_"
                 \o format_timestamp(entry.timestamp)

\* The map after the lines from number line_num (0-based) on are read.
RECURSIVE ReadLines(_, _, _)
ReadLines(lines, line_num, entries_by_id) ==
    LET read(line, entry) ==
            IF ~IsSome(entry) THEN entries_by_id
            ELSE MapInsert(entries_by_id,
                           entry_key(line.event, line_num, Unwrap(entry)),
                           Unwrap(entry))
    IN  IF lines = <<>> THEN entries_by_id
        ELSE The({ReadLines(Tail(lines), line_num + 1, next) :
                     next \in {The({read(Head(lines), entry) :
                                       entry \in {parse_line(Head(lines))}})}})

MapValues(m) == [i \in 1..Len(m) |-> m[i][2]]

\* The entries of a file that could be opened.
read_jsonl_file(lines) == MapValues(ReadLines(lines, 0, <<>>))

(***************************************************************************)
(* The corpus: two project directories and three session files.  Source    *)
(* files are append-only, so the content of a file is the prefix of a      *)
(* fixed sequence of lines, given by its length.                           *)
(***************************************************************************)
Projects == {"D--a", "D--b"}
Files == {"f1", "f2", "f3"}
ProjectOrder == <<"D--a", "D--b">>
FileOrder == <<"f1", "f2", "f3">>

\* The project directory a file path lies in.
Owner(f) == IF f \in {"f1", "f2"} THEN "D--a" ELSE "D--b"

\* usage/config.rs decode_project_path, on the two directory names.
decode_project_path(encoded) == IF encoded = "D--a" THEN "D:\\a" ELSE "D:\\b"

NoTokens == Usage(None, None, None, None)

CorpusEvents ==
    << \* an assistant event with both ids; tokens in the nested message
       SessionEvent(Some("assistant"),
                    Some(Message(Some("m1"), None, Some(Usage(Some(10), Some(5), None, None)))),
                    TsUtc(1 * MinutesPerDay + 600), None, None, None, Some("r1")),
       \* the same ids again, with the final token counts
       SessionEvent(Some("assistant"),
                    Some(Message(Some("m1"), None, Some(Usage(Some(20), Some(10), Some(4), Some(2))))),
                    TsUtc(1 * MinutesPerDay + 601), None, None, None, Some("r1")),
       \* an event without ids, tokens at top level, a day later
       SessionEvent(Some("user"), None, TsUtc(2 * MinutesPerDay + 30), Some(1500),
                    Some(Usage(Some(100), Some(50), None, None)), None, None),
       \* an event without usable tokens
       SessionEvent(Some("user"), None, TsUtc(2 * MinutesPerDay + 40), None,
                    Some(NoTokens), None, None) >>

Shift(f) == CASE f = "f1" -> 0 [] f = "f2" -> 2 [] OTHER -> 1

\* Line i (1-based) of file f.
Line(f, i) == EventLine(CorpusEvents[((i - 1 + Shift(f)) % Len(CorpusEvents)) + 1])

\* The content of file f when it holds n lines.
Content(f, n) == [i \in 1..n |-> Line(f, i)]

\* usage/config.rs get_display_name: the last component of the decoded path.
get_display_name(decoded) == IF decoded = "D:\\a" THEN "a" ELSE "b"

(***************************************************************************)
(* usage/cache.rs: calculate_usage_data, the projects, the daily buckets   *)
(* and the overall totals.  A timestamp's RFC 3339 string and its date key *)
(* are fixed-width, so their string order is the order of the instants and *)
(* of the day numbers.                                                     *)
(***************************************************************************)
RECURSIVE SumField(_, _)
SumField(s, field) ==
    IF s = <<>> THEN 0 ELSE Head(s)[field] + SumField(Tail(s), field)

RECURSIVE Concat(_)
Concat(ss) == IF ss = <<>> THEN <<>> ELSE Head(ss) \o Concat(Tail(ss))

SeqRange(s) == {s[i] : i \in 1..Len(s)}

SetMin(S) == CHOOSE x \in S : \A y \in S : x <= y
SetMax(S) == CHOOSE x \in S : \A y \in S : x >= y

\* The elements of a finite set of integers in ascending order.
RECURSIVE SortAsc(_)
SortAsc(S) == IF S = {} THEN <<>> ELSE <<SetMin(S)>> \o SortAsc(S \ {SetMin(S)})

\* One project's statistics from its descriptor and its entries.
project_stats(project, entries) ==
    [project_path |-> project.decoded_path,
     display_name |-> project.display_name,
     session_count |-> Len(project.session_files),
     total_input_tokens |-> SumField(entries, "input_tokens"),
     total_output_tokens |-> SumField(entries, "output_tokens"),
     cache_creation_tokens |-> SumField(entries, "cache_creation_tokens"),
     cache_read_tokens |-> SumField(entries, "cache_read_tokens"),
     total_cost_usd |-> round6(SumField(entries, "cost_usd")),
     message_count |-> Len(entries),
     first_activity |-> Some(SetMin({e.timestamp : e \in SeqRange(entries)})),
     last_activity |-> Some(SetMax({e.timestamp : e \in SeqRange(entries)}))]

date_key(entry) == entry.timestamp \div MinutesPerDay

daily_usage_of(all_entries) ==
    LET dates == SortAsc({date_key(e) : e \in SeqRange(all_entries)})
        on(d) == SelectSeq(all_entries, LAMBDA e : date_key(e) = d)
    IN  [i \in 1..Len(dates) |->
            [date |-> dates[i],
             input_tokens |-> SumField(on(dates[i]), "input_tokens"),
             output_tokens |-> SumField(on(dates[i]), "output_tokens"),
             cache_creation_tokens |-> SumField(on(dates[i]), "cache_creation_tokens"),
             cache_read_tokens |-> SumField(on(dates[i]), "cache_read_tokens"),
             cost_usd |-> round6(SumField(on(dates[i]), "cost_usd")),
             message_count |-> Len(on(dates[i]))]]

\* Totals that take the first project only.
overall_stats_of_first(projects) ==
    LET first == SelectSeq(projects, LAMBDA p : p = projects[1])
    IN  [project_count |-> Len(projects),
         total_input_tokens |-> SumField(first, "total_input_tokens"),
         total_output_tokens |-> SumField(first, "total_output_tokens"),
         cache_creation_tokens |-> SumField(first, "cache_creation_tokens"),
         cache_read_tokens |-> SumField(first, "cache_read_tokens"),
         total_cost_usd |-> round6(SumField(projects, "total_cost_usd")),
         total_messages |-> SumField(first, "message_count"),
         total_sessions |-> SumField(projects, "session_count")]

\* The totals of OverallStats, summed over the project statistics.
overall_stats_of(projects) ==
    [project_count |-> Len(projects),
     total_input_tokens |-> SumField(projects, "total_input_tokens"),
     total_output_tokens |-> SumField(projects, "total_output_tokens"),
     cache_creation_tokens |-> SumField(projects, "cache_creation_tokens"),
     cache_read_tokens |-> SumField(projects, "cache_read_tokens"),
     total_cost_usd |-> round6(SumField(projects, "total_cost_usd")),
     total_messages |-> SumField(projects, "message_count"),
     total_sessions |-> SumField(projects, "session_count")]

\* Stable sort, descending by last activity.
RECURSIVE InsertByActivity(_, _)
InsertByActivity(sorted, p) ==
    IF sorted = <<>> THEN <<p>>
    ELSE IF Unwrap(Head(sorted).last_activity) >= Unwrap(p.last_activity)
         THEN <<Head(sorted)>> \o InsertByActivity(Tail(sorted), p)
         ELSE <<p>> \o sorted

RECURSIVE SortByActivity(_)
SortByActivity(ps) ==
    IF ps = <<>> THEN <<>>
    ELSE InsertByActivity(SortByActivity(SubSeq(ps, 1, Len(ps) - 1)), ps[Len(ps)])

\* all_data: a sequence of [project, entries]; projects without entries are
\* skipped.
calculate_usage_data(all_data) ==
    The({The({[projects |-> SortByActivity(projects),
               daily_usage |-> daily_usage_of(
                   Concat([i \in 1..Len(with_entries) |-> with_entries[i].entries])),
               overall_stats |-> overall_stats_of(projects)] :
                 projects \in {[i \in 1..Len(with_entries) |->
                                   project_stats(with_entries[i].project,
                                                 with_entries[i].entries)]}}) :
            with_entries \in {SelectSeq(all_data, LAMBDA d : d.entries /= <<>>)}})

(***************************************************************************)
(* The file system as the cache manager sees it: the root projects         *)
(* directory and, per file path, whether the file exists, how many lines   *)
(* it holds, its modification time and whether it can be opened.           *)
(***************************************************************************)
NoFile == [exists |-> FALSE, len |-> 0, mtime |-> 0, readable |-> TRUE]

Ok(v) == [ok |-> TRUE, val |-> v]
Err(e) == [ok |-> FALSE, err |-> e]

\* A listing that takes a missing projects directory for an empty one.
list_projects_or_empty(fs) == Ok(<<>>)

\* usage/reader.rs list_projects: the directories holding at least one
\* session file, each with its files.
list_projects(fs) ==
    IF fs.root /= "ok" THEN Err("DirNotFound")
    ELSE LET files_of(p) == SelectSeq(FileOrder,
                                LAMBDA f : Owner(f) = p /\ fs.files[f].exists)
             listed == SelectSeq(ProjectOrder, LAMBDA p : files_of(p) /= <<>>)
         IN  Ok([i \in 1..Len(listed) |->
                    [encoded_path |-> listed[i],
                     decoded_path |-> decode_project_path(listed[i]),
                     display_name |-> get_display_name(decode_project_path(listed[i])),
                     session_files |-> files_of(listed[i])]])

\* File::open followed by the line loop.
open_and_read(fs, f) ==
    IF fs.files[f].exists /\ fs.files[f].readable
    THEN Ok(read_jsonl_file(Content(f, fs.files[f].len)))
    ELSE Err("Io")

all_files_of(projects) == Concat([i \in 1..Len(projects) |-> projects[i].session_files])

(***************************************************************************)
(* usage/cache.rs: CacheManager.  cm is the manager's state:               *)
(*   file_cache        a function from the cached paths to their records   *)
(*   cached_projects   the descriptor list                                 *)
(*   last_full_refresh None or Some                                        *)
(*   last_dir_scan     None or Some(seconds elapsed since the scan)        *)
(*   cached_usage_data None or Some(snapshot)                              *)
(***************************************************************************)
RESCAN_SECS == 60

EmptyCache ==
    [file_cache |-> <<>>, cached_projects |-> <<>>, last_full_refresh |-> None,
     last_dir_scan |-> None, cached_usage_data |-> None]

\* A clear that resets everything but the file records.
clear_but_records(cm) == [EmptyCache EXCEPT !.file_cache = cm.file_cache]

clear(cm) == EmptyCache

is_empty(cm) == DOMAIN cm.file_cache = {}

\* A throttle that lets every refresh rescan.
should_rescan_always(cm) == TRUE

should_rescan_dirs(cm) ==
    IF cm.last_dir_scan = None THEN TRUE
    ELSE Unwrap(cm.last_dir_scan) >= RESCAN_SECS

\* A change detection that overlooks a modification time one tick newer
\* than the recorded one.
check_file_changes_coarse(cm, current_files, fs) ==
    LET cached == DOMAIN cm.file_cache
        statable == SelectSeq(current_files, LAMBDA f : fs.files[f].exists)
    IN  [modified |-> SelectSeq(statable,
                         LAMBDA f : f \in cached
                                    /\ fs.files[f].mtime > cm.file_cache[f].mtime + 1),
         new_files |-> SelectSeq(statable, LAMBDA f : f \notin cached),
         deleted |-> SelectSeq(FileOrder,
                         LAMBDA f : f \in cached /\ f \notin SeqRange(current_files))]

\* A listed file is modified when its mtime on disk is newer than the
\* recorded one, new when it has no record; a record whose path is not
\* listed is deleted.  A listed file whose metadata cannot be read is
\* skipped.
check_file_changes(cm, current_files, fs) ==
    LET cached == DOMAIN cm.file_cache
        statable == SelectSeq(current_files, LAMBDA f : fs.files[f].exists)
    IN  [modified |-> SelectSeq(statable,
                         LAMBDA f : f \in cached
                                    /\ fs.files[f].mtime > cm.file_cache[f].mtime),
         new_files |-> SelectSeq(statable, LAMBDA f : f \notin cached),
         deleted |-> SelectSeq(FileOrder,
                         LAMBDA f : f \in cached /\ f \notin SeqRange(current_files))]

\* A function with one more (or one replaced) point.
MapPut(m, k, v) == [x \in DOMAIN m \cup {k} |-> IF x = k THEN v ELSE m[x]]
MapDrop(m, ks) == [x \in DOMAIN m \ ks |-> m[x]]

\* The record takes the mtime the file has when the record is stored; when
\* the metadata cannot be read, the wall clock, which no mtime exceeds.
update_file_cache(cm, file, entries, fs, wall) ==
    LET mtime == IF fs.files[file].exists THEN fs.files[file].mtime ELSE wall
    IN  [cm EXCEPT !.file_cache = MapPut(@, file, [mtime |-> mtime, entries |-> entries])]

\* A removal that leaves the record where it is.
keep_file(cm, file) == cm

remove_file(cm, file) == [cm EXCEPT !.file_cache = MapDrop(@, {file})]

get_file_entries(cm, file) ==
    IF file \in DOMAIN cm.file_cache THEN Some(cm.file_cache[file].entries) ELSE None

update_projects(cm, projects) ==
    [cm EXCEPT !.cached_projects = projects, !.last_dir_scan = Some(0)]

mark_full_refresh(cm) == [cm EXCEPT !.last_full_refresh = Some(0)]

\* One turn of the loop over the files to read: a file that is read gets a
\* fresh record, a file that cannot be read is logged and left as it is.
store_if_read(cm, file, r, fs) ==
    IF r.ok THEN update_file_cache(cm, file, r.val, fs, fs.clock) ELSE cm

RECURSIVE process_changed(_, _, _)
process_changed(cm, files, fs) ==
    IF files = <<>> THEN cm
    ELSE The({process_changed(stored, Tail(files), fs) :
                 stored \in {The({store_if_read(cm, Head(files), r, fs) :
                                     r \in {open_and_read(fs, Head(files))}})}})

RECURSIVE remove_files(_, _)
remove_files(cm, files) ==
    IF files = <<>> THEN cm
    ELSE The({remove_files(removed, Tail(files)) :
                 removed \in {remove_file(cm, Head(files))}})

\* "Build usage data from cache": per listed project, the cached entries of
\* its session files.
cached_entries_of(cm, project) ==
    Concat([i \in 1..Len(project.session_files) |->
               UnwrapOr(get_file_entries(cm, project.session_files[i]), <<>>)])

all_data_from_cache(cm, projects) ==
    [i \in 1..Len(projects) |->
        [project |-> projects[i], entries |-> cached_entries_of(cm, projects[i])]]

\* The snapshot of the listed projects from the records held.
snapshot_from_cache(cm, projects) ==
    calculate_usage_data(all_data_from_cache(cm, projects))

\* CacheManager::get_cached_data.
get_cached_data(cm) == cm.cached_usage_data

\* The end of a load: the snapshot is stored and returned.
with_snapshot(cm, projects) ==
    The({[cm |-> [cm EXCEPT !.cached_usage_data = Some(data)], result |-> Ok(data)] :
            data \in {snapshot_from_cache(cm, projects)}})

\* A full load that leaves the manager as it was when the listing fails.
full_load_or_keep(cm, fs) ==
    The({IF ~listing.ok THEN [cm |-> cm, result |-> listing]
         ELSE The({with_snapshot(filled, listing.val) :
                      filled \in {mark_full_refresh(update_projects(
                                      process_changed(clear(cm),
                                                      all_files_of(listing.val), fs),
                                      listing.val))}}) :
            listing \in {list_projects(fs)}})

\* full_load: clear, list, read every file, store a record for every file
\* read, aggregate what was read.  The registry starts empty, so the
\* entries read for a project are the entries of the records of its files.
full_load(cm, fs) ==
    The({IF ~listing.ok THEN [cm |-> clear(cm), result |-> listing]
         ELSE The({with_snapshot(filled, listing.val) :
                      filled \in {mark_full_refresh(update_projects(
                                      process_changed(clear(cm),
                                                      all_files_of(listing.val), fs),
                                      listing.val))}}) :
            listing \in {list_projects(fs)}})

\* The part incremental_load and incremental_load_with_delta share on a
\* non-empty cache: the optional rescan, the listing and the file diff.
rescan_and_diff(cm, fs) ==
    The({IF ~listing.ok THEN [ok |-> FALSE, err |-> listing.err]
         ELSE The({[ok |-> TRUE, cm |-> scanned, projects |-> listing.val,
                    changes |-> check_file_changes(scanned,
                                                   all_files_of(listing.val), fs)] :
                      scanned \in {IF should_rescan_dirs(cm)
                                   THEN update_projects(cm, listing.val) ELSE cm}}) :
            listing \in {list_projects(fs)}})

\* An update that keeps only the records of the files it read.
apply_changes_from_scratch(cm, changes, fs) ==
    process_changed([cm EXCEPT !.file_cache = <<>>],
                    changes.modified \o changes.new_files, fs)

\* The registry after the records of the deleted files are removed and the
\* modified and new files are read.
apply_changes(cm, changes, fs) ==
    process_changed(remove_files(cm, changes.deleted),
                    changes.modified \o changes.new_files, fs)

incremental_load(cm, fs) ==
    IF is_empty(cm) THEN full_load(cm, fs)
    ELSE The({IF ~s.ok THEN [cm |-> cm, result |-> Err(s.err)]
              ELSE The({with_snapshot(updated, s.projects) :
                           updated \in {apply_changes(s.cm, s.changes, fs)}}) :
                 s \in {rescan_and_diff(cm, fs)}})

\* The decoded path of the first descriptor that lists the file, if any.
owning_paths(projects, file) ==
    LET hits == SelectSeq(projects, LAMBDA p : file \in SeqRange(p.session_files))
    IN  IF hits = <<>> THEN {} ELSE {hits[1].decoded_path}

changed_project_paths(current_projects, cached_projects, changes) ==
    UNION {owning_paths(current_projects, f) :
               f \in SeqRange(changes.modified \o changes.new_files)}
    \cup UNION {owning_paths(cached_projects, f) : f \in SeqRange(changes.deleted)}

\* A delta of a first load that is marked as an incremental one.
unmarked_delta(data) ==
    [has_changes |-> TRUE, full_refresh |-> FALSE,
     updated_projects |-> data.projects,
     overall_stats |-> Some(data.overall_stats),
     daily_usage |-> Some(data.daily_usage)]

\* The delta of a full refresh and the delta of an incremental one.
full_delta(data) ==
    [has_changes |-> TRUE, full_refresh |-> TRUE,
     updated_projects |-> data.projects,
     overall_stats |-> Some(data.overall_stats),
     daily_usage |-> Some(data.daily_usage)]

delta_of(data, updated_projects) ==
    [has_changes |-> updated_projects /= <<>>,
     full_refresh |-> FALSE,
     updated_projects |-> updated_projects,
     overall_stats |-> IF updated_projects /= <<>> THEN Some(data.overall_stats)
                       ELSE None,
     daily_usage |-> IF updated_projects /= <<>> THEN Some(data.daily_usage)
                     ELSE None]

\* The end of an incremental refresh with delta: the snapshot and the
\* statistics of the changed projects that are in it.
with_delta(updated, data, changed) ==
    [cm |-> updated,
     result |-> Ok([data |-> data,
                    delta |-> The({delta_of(data, updated_projects) :
                                      updated_projects \in
                                          {SelectSeq(data.projects,
                                               LAMBDA p : p.project_path \in changed)}})])]

\* The changed-project set of a call: the owners of the modified and new
\* files in the listing just obtained, the owners of the deleted files in
\* the descriptor list the manager holds when the deleted files are gone
\* through, which is the new listing when the call has rescanned.
changed_paths_of(s) ==
    changed_project_paths(s.projects, s.cm.cached_projects, s.changes)

incremental_load_with_delta(cm, fs) ==
    IF is_empty(cm)
    THEN The({IF ~full.result.ok THEN full
              ELSE [cm |-> full.cm,
                    result |-> Ok([data |-> full.result.val,
                                   delta |-> full_delta(full.result.val)])] :
                 full \in {full_load(cm, fs)}})
    ELSE The({IF ~s.ok THEN [cm |-> cm, result |-> Err(s.err)]
              ELSE The({The({with_delta(updated, data, changed_paths_of(s)) :
                                data \in {snapshot_from_cache(updated, s.projects)}}) :
                           updated \in {apply_changes(s.cm, s.changes, fs)}}) :
                 s \in {rescan_and_diff(cm, fs)}})

\* A check that looks at nothing but whether the registry is empty.
has_changes_if_empty(cm, fs) == is_empty(cm)

has_changes(cm, fs) ==
    LET differ(changes) ==
            changes.modified /= <<>> \/ changes.new_files /= <<>>
            \/ changes.deleted /= <<>>
        of_listing(listing) ==
            IF ~listing.ok THEN FALSE
            ELSE differ(check_file_changes(cm, all_files_of(listing.val), fs))
    IN  IF is_empty(cm) THEN TRUE ELSE of_listing(list_projects(fs))

\* usage/background.rs, the file arm of the refresh loop.  The event sent
\* when has_changes finds nothing: UsageDataDelta { has_changes: false,
\* ..Default::default() }.
heartbeat ==
    [has_changes |-> FALSE, full_refresh |-> FALSE, updated_projects |-> <<>>,
     overall_stats |-> None, daily_usage |-> None]

\* The files incremental_load_with_delta passes to read_jsonl_file: every
\* listed file on an empty registry, the modified and the new ones
\* otherwise.
files_to_read(cm, fs) ==
    LET of_listing(listing) ==
            IF listing.ok THEN all_files_of(listing.val) ELSE <<>>
        of_diff(s) ==
            IF s.ok THEN s.changes.modified \o s.changes.new_files ELSE <<>>
    IN  IF is_empty(cm) THEN of_listing(list_projects(fs))
        ELSE of_diff(rescan_and_diff(cm, fs))

\* One iteration of the loop in file mode: has_changes, then either the
\* refresh and the event for its delta (nothing but a log line when the
\* refresh fails) or the heartbeat.
refresh_tick(cm, fs) ==
    IF has_changes(cm, fs)
    THEN The({[cm |-> r.cm,
               completed |-> r.result.ok,
               emitted |-> IF r.result.ok THEN Some(r.result.val.delta) ELSE None,
               parsed |-> files_to_read(cm, fs)] :
                 r \in {incremental_load_with_delta(cm, fs)}})
    ELSE [cm |-> cm, completed |-> FALSE, emitted |-> Some(heartbeat),
          parsed |-> <<>>]

(***************************************************************************)
(* State.                                                                  *)
(*   fs      the file system: root ("ok" or "missing"), files, clock (the  *)
(*           time the last write happened; a write takes the next value)   *)
(*   cache   the CacheManager                                              *)
(*   last    the last call on the manager: its name, what it started from *)
(*           and what it returned; "none" once the environment has moved   *)
(*           on                                                            *)
(*   seen    the files as they were when the last refresh completed, and   *)
(*           the kind of refresh it was                                    *)
(*   writes  the number of changes the environment has made                *)
(* A refresh in progress (RaceSpec):                                       *)
(*   rpc     where the refresh stands: "idle", "read", "stat", "build"     *)
(*   todo    the files it has still to read                                *)
(*   buf     the entries parsed from the file just read                    *)
(*   listed  the descriptors it listed, and whether it is a full load      *)
(*   hist    every (file, mtime, length) the disk has held                 *)
(* The threads of the application (SchedSpec, LiveSpec):                   *)
(*   pc        each thread's position                                      *)
(*   holders   the threads holding the cache mutex                         *)
(*   poisoned  whether a thread panicked while holding it                  *)
(*   until     seconds until the interval's next deadline (negative once   *)
(*             the deadline has passed)                                    *)
(*   timer     the timer task's locals: the lateness of its last tick, the *)
(*             data it has read, the outcome of its last iteration         *)
(*   cmd       each command's locals and what it last returned             *)
(*   env       the process environment: the data source selected, whether  *)
(*             the application state is managed                            *)
(* A function of the reader or of the aggregation applied to an input     *)
(* (ReaderSpec and the specifications after it):                           *)
(*   call      the function's name, its input and, once applied, its       *)
(*             result                                                      *)
(***************************************************************************)
VARIABLES fs, cache, last, seen, writes,
          rpc, todo, buf, listed, hist,
          pc, holders, poisoned, until, timer, cmd, env,
          call

cacheVars == <<fs, cache, last, seen, writes>>
raceVars == <<rpc, todo, buf, listed, hist>>
schedVars == <<pc, holders, poisoned, until, timer, cmd, env>>

pureVars == <<call>>

vars == <<cacheVars, raceVars, schedVars, pureVars>>

\* Seconds the environment lets pass in one step.
TimeStep == 60

NoCall == [op |-> "none"]

InitFiles ==
    {files \in [Files -> [exists : BOOLEAN, len : {0, 1}, mtime : {0, 1},
                          readable : {TRUE}]] :
        \A f \in Files :
            IF files[f].exists THEN files[f].len = 1 /\ files[f].mtime = 1
            ELSE files[f] = NoFile}

\* The application: the timer task and the threads serving commands.
Timer == "timer"
Commands == {"c1", "c2"}
Threads == {Timer} \cup Commands

\* How an attempt ended: its kind, what the consumer of the timer's events
\* or the caller of the command received ("none", "delta", "heartbeat",
\* "data", "error"), and whether a line was logged.
Outcome(kind, received, logged) ==
    [kind |-> kind, received |-> received, logged |-> logged]

NoOutcome == Outcome("none", "none", FALSE)

TimerIdle == [lag |-> 0, telemetry_data |-> None, jsonl_data |-> None,
              outcome |-> NoOutcome]

CmdIdle == [telemetry_data |-> None, jsonl_data |-> None, reply |-> NoOutcome]

\* No refresh in progress.
RaceIdle ==
    /\ rpc = "idle" /\ todo = <<>> /\ buf = None
    /\ listed = [projects |-> <<>>, full |-> FALSE]

\* No function under application.
PureIdle == call = [op |-> "none"]

\* No thread started.
SchedIdle ==
    /\ pc = [t \in Threads |-> "off"]
    /\ holders = {}
    /\ poisoned = FALSE
    /\ until = 0
    /\ timer = TimerIdle
    /\ cmd = [c \in Commands |-> CmdIdle]
    /\ env = [telemetry |-> FALSE, managed |-> TRUE]

Init ==
    /\ fs \in {[root |-> "ok", files |-> files, clock |-> 1] : files \in InitFiles}
    /\ cache = EmptyCache
    /\ last = NoCall
    /\ seen = [files |-> [f \in Files |-> NoFile], by |-> "none"]
    /\ writes = 0
    /\ RaceIdle /\ hist = {}
    /\ PureIdle
    /\ SchedIdle

(***************************************************************************)
(* The environment: a writer of session files.  Every write to a file      *)
(* gives it a modification time newer than any before.                     *)
(***************************************************************************)
EnvStep ==
    /\ writes < MaxWrites
    /\ writes' = writes + 1
    /\ last' = NoCall
    /\ UNCHANGED <<cache, seen, raceVars, schedVars, pureVars>>

Written(f, n, r) ==
    [fs EXCEPT !.clock = fs.clock + 1,
               !.files[f] = [exists |-> TRUE, len |-> n, mtime |-> fs.clock + 1,
                             readable |-> r]]

Create(f) ==
    /\ fs.root = "ok" /\ ~fs.files[f].exists
    /\ fs' = Written(f, 1, TRUE)
    /\ EnvStep

AppendLine(f) ==
    /\ fs.files[f].exists /\ fs.files[f].len < MaxLines
    /\ fs' = Written(f, fs.files[f].len + 1, fs.files[f].readable)
    /\ EnvStep

Delete(f) ==
    /\ fs.files[f].exists
    /\ fs' = [fs EXCEPT !.files[f] = NoFile]
    /\ EnvStep

\* A change of permissions leaves the modification time alone.
SetReadable(f) ==
    /\ fs.files[f].exists
    /\ fs' = [fs EXCEPT !.files[f].readable = ~fs.files[f].readable]
    /\ EnvStep

RemoveRoot ==
    /\ fs.root = "ok"
    /\ fs' = [fs EXCEPT !.root = "missing", !.files = [f \in Files |-> NoFile]]
    /\ EnvStep

RestoreRoot ==
    /\ fs.root = "missing"
    /\ fs' = [fs EXCEPT !.root = "ok"]
    /\ EnvStep

\* Time passes: the last directory scan gets older.
TimePasses ==
    /\ IsSome(cache.last_dir_scan)
    /\ Unwrap(cache.last_dir_scan) < RESCAN_SECS
    /\ cache' = [cache EXCEPT !.last_dir_scan =
                     Some(Min2(Unwrap(cache.last_dir_scan) + TimeStep, RESCAN_SECS))]
    /\ last' = NoCall
    /\ UNCHANGED <<fs, seen, writes, raceVars, schedVars, pureVars>>

(***************************************************************************)
(* The calls on the manager, each a whole handler.                         *)
(***************************************************************************)
\* What the call starts from: the diff the code computes (empty when the
\* cache is empty or the root cannot be listed) and the files that differ
\* from what the last completed refresh saw.
NoChanges == [modified |-> <<>>, new_files |-> <<>>, deleted |-> <<>>]

DiffAtCall ==
    LET changes_of(s) == IF is_empty(cache) \/ ~s.ok THEN NoChanges ELSE s.changes
    IN  changes_of(rescan_and_diff(cache, fs))

SameFile(a, b) == a.exists = b.exists /\ a.len = b.len /\ a.mtime = b.mtime

Dirty == {f \in Files : ~SameFile(fs.files[f], seen.files[f])}

\* File f was appended to since the last completed refresh: it existed
\* then, its mtime advanced and the lines added can be read and hold a
\* usable event.
AppendedSince(f) ==
    /\ seen.files[f].exists /\ fs.files[f].exists /\ fs.files[f].readable
    /\ fs.files[f].mtime > seen.files[f].mtime
    /\ fs.files[f].len > seen.files[f].len
    /\ \E i \in (seen.files[f].len + 1)..fs.files[f].len :
           IsSome(process_event(Line(f, i).event))

\* The only changes since the last completed refresh are appends.
AppendsOnly == Dirty /= {} /\ \A f \in Dirty : AppendedSince(f)

CallRecord(op, result) ==
    [op |-> op, result |-> result, changes |-> DiffAtCall, dirty |-> Dirty,
     was_empty |-> is_empty(cache), after |-> seen.by, appends_only |-> AppendsOnly]

Called(op, r) ==
    /\ cache' = r.cm
    /\ last' = CallRecord(op, r.result)
    /\ seen' = IF ~r.result.ok THEN seen
               ELSE [files |-> fs.files,
                     by |-> IF is_empty(cache) THEN "full_load" ELSE op]
    /\ UNCHANGED <<fs, writes, raceVars, schedVars, pureVars>>

CallFullLoad == \E r \in {full_load(cache, fs)} : Called("full_load", r)

CallIncrementalLoad ==
    \E r \in {incremental_load(cache, fs)} : Called("incremental_load", r)

CallIncrementalLoadWithDelta ==
    \E r \in {incremental_load_with_delta(cache, fs)} :
        Called("incremental_load_with_delta", r)

CallHasChanges ==
    /\ last' = CallRecord("has_changes", Ok(has_changes(cache, fs)))
    /\ UNCHANGED <<fs, cache, seen, writes, raceVars, schedVars, pureVars>>

Next ==
    \/ \E f \in Files : Create(f)
    \/ \E f \in Files : AppendLine(f)
    \/ \E f \in Files : Delete(f)
    \/ \E f \in Files : SetReadable(f)
    \/ RemoveRoot
    \/ RestoreRoot
    \/ TimePasses
    \/ CallFullLoad
    \/ CallIncrementalLoad
    \/ CallIncrementalLoadWithDelta
    \/ CallHasChanges

Spec == Init /\ [][Next]_vars

(***************************************************************************)
(* Claims about the cache manager, checked under Spec.                     *)
(***************************************************************************)
AllReadable == \A f \in Files : fs.files[f].exists => fs.files[f].readable

IsRefresh(op) == op \in {"incremental_load", "incremental_load_with_delta"}

\* The snapshot the last refresh returned.
LastData ==
    IF last.op = "incremental_load_with_delta" THEN last.result.val.data
    ELSE last.result.val

\* What a full load on the disk as it is returns.
FullReload == full_load(EmptyCache, fs).result

\* C1: with every source file readable and every write advancing the
\* file's modification time, the snapshot an incremental refresh returns is
\* the snapshot a full load returns on the same disk state.
C1_IncrementalEqualsFull ==
    (IsRefresh(last.op) /\ last.result.ok /\ AllReadable)
        => FullReload = Ok(LastData)

\* C1 witness: an incremental refresh on a populated cache that found a
\* modified file and a deleted one.
C1_Witness ==
    /\ IsRefresh(last.op) /\ last.result.ok /\ AllReadable /\ ~last.was_empty
    /\ last.changes.modified /= <<>>
    /\ last.changes.deleted /= <<>>
    /\ LastData.projects /= <<>>

\* The files a refresh found new or modified and could not open.
FailedReparse ==
    {f \in SeqRange(last.changes.modified \o last.changes.new_files) :
        ~fs.files[f].readable}

\* C3: after an incremental refresh, a file that was found new or modified
\* and could not be re-parsed has no record in the registry (and so no
\* entries in the snapshot).
C3_FailedReparseDropsRecord ==
    (IsRefresh(last.op) /\ last.result.ok /\ ~last.was_empty)
        => \A f \in FailedReparse : f \notin DOMAIN cache.file_cache

\* The delta the last call returned.
LastDelta == last.result.val.delta

DeltaCall ==
    last.op = "incremental_load_with_delta" /\ last.result.ok /\ ~last.was_empty

\* C4: on a non-empty registry, a delta reports has_changes with both
\* aggregates whenever a file was added, modified or deleted since the
\* previous refresh, and reports no changes (without aggregates) only when
\* none was.
C4_DeltaReportsEveryChange ==
    DeltaCall =>
        /\ last.dirty /= {} =>
              /\ LastDelta.has_changes
              /\ IsSome(LastDelta.overall_stats)
              /\ IsSome(LastDelta.daily_usage)
        /\ ~LastDelta.has_changes =>
              /\ last.dirty = {}
              /\ LastDelta.overall_stats = None
              /\ LastDelta.daily_usage = None

\* C5: when the only changes since a full load are appends to existing
\* files, the delta's updated projects are exactly the projects that own
\* an appended file, each with the statistics of the snapshot.
C5_UpdatedProjectsAreTheOwners ==
    (/\ DeltaCall
     /\ last.after = "full_load"
     /\ last.appends_only)
        => /\ {p.project_path : p \in SeqRange(LastDelta.updated_projects)}
                = {decode_project_path(Owner(f)) : f \in last.dirty}
           /\ SeqRange(LastDelta.updated_projects) \subseteq SeqRange(LastData.projects)

\* The files of the listing that can be opened.
ReadableFiles == {f \in Files : fs.files[f].exists /\ fs.files[f].readable}

\* C12: after a successful full_load, from whatever registry it started,
\* the registry holds one record for each listed file that can be read and
\* no other, each with the parse of the file's content at this call.
C12_FullLoadReplacesRegistry ==
    (last.op = "full_load" /\ last.result.ok)
        => /\ DOMAIN cache.file_cache = ReadableFiles
           /\ \A f \in ReadableFiles :
                  /\ cache.file_cache[f].entries
                         = read_jsonl_file(Content(f, fs.files[f].len))
                  /\ cache.file_cache[f].mtime = fs.files[f].mtime

\* C12 witness: a full_load on a populated registry that held the record
\* of a file deleted since and the record of a file that has become
\* unreadable.
C12_Witness ==
    /\ last.op = "full_load" /\ last.result.ok /\ ~last.was_empty
    /\ last.changes.deleted /= <<>>
    /\ \E f \in Files : fs.files[f].exists /\ ~fs.files[f].readable
    /\ cache.file_cache /= <<>>

\* C13: a refresh on an empty registry is a full load, and its delta is
\* marked as a full refresh with changes and carries every project of the
\* snapshot; the delta of a refresh on a non-empty registry is never
\* marked as a full refresh.
C13_FirstRefreshIsFull ==
    /\ (IsRefresh(last.op) /\ last.was_empty /\ last.result.ok)
           => /\ Ok(LastData) = FullReload
              /\ cache = full_load(EmptyCache, fs).cm
    /\ (last.op = "incremental_load_with_delta" /\ last.was_empty /\ last.result.ok)
           => /\ LastDelta.has_changes
              /\ LastDelta.full_refresh
              /\ LastDelta.updated_projects = LastData.projects
    /\ DeltaCall => ~LastDelta.full_refresh

\* C13 witness: a refresh with delta on an empty registry that loaded the
\* files of two projects, after the writer has changed the disk.
C13_Witness ==
    /\ last.op = "incremental_load_with_delta" /\ last.was_empty /\ last.result.ok
    /\ Len(LastData.projects) = 2
    /\ writes > 0

\* C18: with the projects directory missing, full_load, incremental_load
\* and incremental_load_with_delta return the DirNotFound error, from
\* whatever registry they start.
C18_MissingRootIsError ==
    (last.op \in {"full_load", "incremental_load", "incremental_load_with_delta"}
     /\ fs.root = "missing")
        => last.result = Err("DirNotFound")

\* C18 witness: an incremental refresh on a populated registry after the
\* projects directory has gone.
C18_Witness ==
    /\ IsRefresh(last.op) /\ ~last.was_empty
    /\ fs.root = "missing"
    /\ ~last.result.ok

\* The files a refresh has nothing to do for: listed, on disk, recorded,
\* and no newer on disk than their record.
UnaffectedFiles ==
    {f \in DOMAIN cache.file_cache :
        /\ fs.root = "ok" /\ fs.files[f].exists
        /\ fs.files[f].mtime <= cache.file_cache[f].mtime}

\* C24: an incremental refresh leaves the record (mtime and entries) of
\* every file that is neither new, modified nor deleted as it was, and does
\* not read the file.
C24_UnaffectedRecordsKept ==
    [][IsRefresh(last'.op)
          => \A f \in UnaffectedFiles :
                /\ f \in DOMAIN cache'.file_cache
                /\ cache'.file_cache[f] = cache.file_cache[f]
                /\ f \notin SeqRange(files_to_read(cache, fs))]_vars

\* C24 witness: a completed incremental refresh that re-read a modified
\* file and holds the record of a file it had nothing to do for.
C24_Witness ==
    /\ IsRefresh(last.op) /\ last.result.ok /\ ~last.was_empty
    /\ last.changes.modified /= <<>>
    /\ \E f \in UnaffectedFiles :
          /\ f \notin last.dirty
          /\ f \notin SeqRange(last.changes.modified \o last.changes.new_files)
          /\ cache.file_cache[f].entries /= <<>>

\* The files of the listing a refresh obtains on the disk as it is.
ListedFiles ==
    IF list_projects(fs).ok THEN SeqRange(all_files_of(list_projects(fs).val))
    ELSE {}

\* C25: after every completed refresh, full or incremental, every path
\* with a record is in the listing the refresh obtained.
C25_RecordsAreListed ==
    (last.op \in {"full_load", "incremental_load", "incremental_load_with_delta"}
     /\ last.result.ok)
        => DOMAIN cache.file_cache \subseteq ListedFiles

\* C25 witness: a completed incremental refresh that found a deleted file
\* and still holds the record of another.
C25_Witness ==
    /\ IsRefresh(last.op) /\ last.result.ok /\ ~last.was_empty
    /\ last.changes.deleted /= <<>>
    /\ DOMAIN cache.file_cache /= {}
    /\ \A f \in SeqRange(last.changes.deleted) : f \notin DOMAIN cache.file_cache

\* C26: in every incremental_load_with_delta call, with or without a
\* directory rescan, the project that held a deleted file in the descriptor
\* list cached before the call is in the changed-project set.
C26_DeletedFileMarksItsProject ==
    [][(last'.op = "incremental_load_with_delta" /\ ~is_empty(cache)
        /\ rescan_and_diff(cache, fs).ok)
          => \A f \in SeqRange(rescan_and_diff(cache, fs).changes.deleted) :
                owning_paths(cache.cached_projects, f)
                    \subseteq changed_paths_of(rescan_and_diff(cache, fs))]_vars

\* An incremental refresh starts less than 60 seconds after the last
\* rescan.
RefreshSoonAfterRescan ==
    /\ IsRefresh(last'.op) /\ ~is_empty(cache)
    /\ IsSome(cache.last_dir_scan)
    /\ Unwrap(cache.last_dir_scan) < RESCAN_SECS

RefreshWouldWork ==
    \/ files_to_read(cache, fs) /= <<>>
    \/ DOMAIN incremental_load(cache, fs).cm.file_cache /= DOMAIN cache.file_cache

\* C28: has_changes changes neither the registry, the descriptor list nor
\* the cached snapshot, and on a root that can be listed it returns true
\* exactly when the registry is empty or the incremental refresh that
\* follows would read or drop a file.
C28_HasChangesIsPure ==
    [][last'.op = "has_changes"
          => /\ cache' = cache
             /\ fs.root = "ok"
                   => (last'.result.val <=> (is_empty(cache) \/ RefreshWouldWork))]_vars

\* C28 witness: has_changes on a populated registry answers false with
\* nothing to do, after an earlier refresh.
C28_Witness ==
    /\ last.op = "has_changes" /\ ~last.was_empty
    /\ ~last.result.val
    /\ fs.root = "ok"
    /\ ~RefreshWouldWork
    /\ writes > 0

\* The snapshot the call just made has built, when it has built one.
IsLoad(op) == op = "full_load" \/ IsRefresh(op)

SnapshotOfCall ==
    IF last.op = "incremental_load_with_delta" THEN last.result.val.data
    ELSE last.result.val

\* The entries of the records the registry holds, file after file.
RecordedEntries ==
    Concat([i \in 1..Len(FileOrder) |->
               UnwrapOr(get_file_entries(cache, FileOrder[i]), <<>>)])

\* The decoded paths of the projects that have a recorded entry.
ProjectsWithEntries ==
    {decode_project_path(Owner(f)) :
        f \in {g \in DOMAIN cache.file_cache : cache.file_cache[g].entries /= <<>>}}

TotalsAgree(overall, projects, daily, entries) ==
    /\ \A pair \in {<<"total_input_tokens", "input_tokens">>,
                    <<"total_output_tokens", "output_tokens">>,
                    <<"cache_creation_tokens", "cache_creation_tokens">>,
                    <<"cache_read_tokens", "cache_read_tokens">>} :
          /\ overall[pair[1]] = SumField(projects, pair[1])
          /\ overall[pair[1]] = SumField(daily, pair[2])
          /\ overall[pair[1]] = SumField(entries, pair[2])
    /\ overall.total_messages = SumField(projects, "message_count")
    /\ overall.total_messages = SumField(daily, "message_count")
    /\ overall.total_messages = Len(entries)

\* C33: in the snapshot of every load, the overall token totals and the
\* overall message count are the sums over the project statistics, the
\* sums over the daily buckets and the sums over the recorded entries, each
\* counted once; the projects of the snapshot are those with an entry.
C33_ViewsAgree ==
    (IsLoad(last.op) /\ last.result.ok)
        => /\ TotalsAgree(SnapshotOfCall.overall_stats, SnapshotOfCall.projects,
                          SnapshotOfCall.daily_usage, RecordedEntries)
           /\ {p.project_path : p \in SeqRange(SnapshotOfCall.projects)}
                  = ProjectsWithEntries
           /\ Len(SnapshotOfCall.projects) = Cardinality(ProjectsWithEntries)

\* C33 witness: a refresh whose snapshot has two projects and two daily
\* buckets, while a session file on disk has no record.
C33_Witness ==
    /\ IsRefresh(last.op) /\ last.result.ok /\ ~last.was_empty
    /\ Len(SnapshotOfCall.projects) = 2
    /\ Len(SnapshotOfCall.daily_usage) >= 2
    /\ \E f \in Files : fs.files[f].exists /\ f \notin DOMAIN cache.file_cache
    /\ SnapshotOfCall.overall_stats.total_messages >= 3

\* C35: after a successful full_load, incremental_load or
\* incremental_load_with_delta, get_cached_data returns the snapshot that
\* call computed.
C35_CachedDataIsLatestSnapshot ==
    (IsLoad(last.op) /\ last.result.ok)
        => get_cached_data(cache) = Some(SnapshotOfCall)

\* C37: after a full_load that fails because the root cannot be listed the
\* registry and the descriptor list are empty and there is no cached
\* snapshot, whatever the manager held before; the incremental refresh
\* that follows is a full load.
C37_FailedFullLoadLeavesNothing ==
    (last.op = "full_load" /\ ~last.result.ok)
        => /\ is_empty(cache)
           /\ cache.cached_projects = <<>>
           /\ get_cached_data(cache) = None
           /\ incremental_load(cache, fs) = full_load(cache, fs)
           /\ incremental_load_with_delta(cache, fs).cm = full_load(cache, fs).cm

\* C37 witness: a full_load fails on a manager that held records.
C37_Witness ==
    /\ last.op = "full_load" /\ ~last.result.ok
    /\ ~last.was_empty
    /\ fs.root /= "ok"
    /\ cache = EmptyCache

(***************************************************************************)
(* TickSpec: the application in file mode with the refresh task as the     *)
(* only user of the cache, each tick one step, over the same writer of     *)
(* session files as in Spec.                                               *)
(***************************************************************************)
CallTick ==
    /\ \E t \in {refresh_tick(cache, fs)} :
           /\ cache' = t.cm
           /\ last' = CallRecord("tick", [emitted |-> t.emitted, parsed |-> t.parsed])
           /\ seen' = IF t.completed
                      THEN [files |-> fs.files,
                            by |-> IF is_empty(cache) THEN "full_load" ELSE "tick"]
                      ELSE seen
    /\ UNCHANGED <<fs, writes, raceVars, schedVars, pureVars>>

TickNext ==
    \/ \E f \in Files : Create(f)
    \/ \E f \in Files : AppendLine(f)
    \/ \E f \in Files : Delete(f)
    \/ \E f \in Files : SetReadable(f)
    \/ RemoveRoot
    \/ RestoreRoot
    \/ TimePasses
    \/ CallTick

TickSpec == Init /\ [][TickNext]_vars

\* C11: a tick that finds the files as the previous tick's refresh left
\* them sends the event with has_changes = false and full_refresh = false
\* and reads no file, whatever the corpus.
C11_QuietTickIsHeartbeat ==
    (last.op = "tick" /\ last.after /= "none" /\ last.dirty = {})
        => /\ IsSome(last.result.emitted)
           /\ ~Unwrap(last.result.emitted).has_changes
           /\ ~Unwrap(last.result.emitted).full_refresh
           /\ last.result.parsed = <<>>

\* C39: a tick that finds the root directory missing while the registry
\* holds records does not take the failed listing for "no changes": it
\* emits no heartbeat.
C39_ListingFailureNotAHeartbeat ==
    (last.op = "tick" /\ ~last.was_empty /\ ~list_projects(fs).ok)
        => last.result.emitted /= Some(heartbeat)

(***************************************************************************)
(* WatchSpec: the application in file mode with the refresh task and the   *)
(* get_usage_stats_incremental command on the one cache, while a writer    *)
(* appends to the session files.  The cache lock makes each tick and each  *)
(* command one step.  call holds the files that were modified and have not *)
(* been followed by an event that names their project.                     *)
(***************************************************************************)
WatchInit ==
    /\ fs \in {[root |-> "ok", files |-> files, clock |-> 1] : files \in InitFiles}
    /\ cache = EmptyCache
    /\ last = NoCall
    /\ seen = [files |-> [f \in Files |-> NoFile], by |-> "none"]
    /\ writes = 0
    /\ RaceIdle /\ hist = {}
    /\ SchedIdle
    /\ call = [op |-> "watch", pending |-> {}]

\* The writer appends a line to a session file.
WatchAppend(f) ==
    /\ fs.files[f].exists /\ fs.files[f].len < MaxLines
    /\ writes < MaxWrites
    /\ fs' = Written(f, fs.files[f].len + 1, fs.files[f].readable)
    /\ writes' = writes + 1
    /\ last' = NoCall
    /\ call' = [call EXCEPT !.pending = @ \cup {f}]
    /\ UNCHANGED <<cache, seen, raceVars, schedVars>>

\* The files whose project the event names as updated.
NamedBy(emitted) ==
    IF ~IsSome(emitted) \/ ~Unwrap(emitted).has_changes THEN {}
    ELSE {f \in Files :
             \E i \in DOMAIN Unwrap(emitted).updated_projects :
                 Unwrap(emitted).updated_projects[i].project_path
                     = decode_project_path(Owner(f))}

\* The timer's tick in file mode, under the lock.
WatchTick ==
    /\ \E t \in {refresh_tick(cache, fs)} :
           /\ cache' = t.cm
           /\ last' = CallRecord("tick", [emitted |-> t.emitted, parsed |-> t.parsed])
           /\ seen' = IF t.completed
                      THEN [files |-> fs.files,
                            by |-> IF is_empty(cache) THEN "full_load" ELSE "tick"]
                      ELSE seen
           /\ call' = [call EXCEPT !.pending = @ \ NamedBy(t.emitted)]
    /\ UNCHANGED <<fs, writes, raceVars, schedVars>>

\* get_usage_stats_incremental in file mode, under the lock: full_load when
\* force_full is set, incremental_load otherwise; the data goes to the
\* caller, no event is emitted.
WatchCommand ==
    /\ \E force_full \in BOOLEAN :
           \E r \in {IF force_full THEN full_load(cache, fs)
                     ELSE incremental_load(cache, fs)} :
               /\ cache' = r.cm
               /\ last' = CallRecord(IF force_full THEN "full_load"
                                     ELSE "incremental_load", r.result)
               /\ seen' = IF ~r.result.ok THEN seen
                          ELSE [files |-> fs.files,
                                by |-> IF is_empty(cache) \/ force_full
                                       THEN "full_load" ELSE "incremental_load"]
    /\ UNCHANGED <<fs, writes, raceVars, schedVars, pureVars>>

WatchNext ==
    \/ \E f \in Files : WatchAppend(f)
    \/ WatchTick
    \/ WatchCommand

\* The timer task is scheduled again and again, and gets the lock.
WatchSpec == WatchInit /\ [][WatchNext]_vars /\ WF_vars(WatchTick)

\* C34: every modification of a session file is eventually followed by an
\* event with has_changes = true whose updated_projects holds the file's
\* project, however ticks and get_usage_stats_incremental calls interleave.
C34_ModificationEventuallyEmitted ==
    \A f \in Files : (f \in call.pending) ~> (f \notin call.pending)

(***************************************************************************)
(* RaceSpec: one incremental_load at a time, split at its file-system      *)
(* calls, while a writer appends to the session files.  read_jsonl_file    *)
(* reads a file to its end; update_file_cache asks for the file's mtime    *)
(* afterwards, in a call of its own.                                       *)
(***************************************************************************)
RaceInit ==
    /\ fs \in {[root |-> "ok", files |-> files, clock |-> 1] : files \in InitFiles}
    /\ cache = EmptyCache
    /\ last = NoCall
    /\ seen = [files |-> [f \in Files |-> NoFile], by |-> "none"]
    /\ writes = 0
    /\ RaceIdle
    /\ PureIdle
    /\ hist = {[file |-> f, mtime |-> fs.files[f].mtime, len |-> fs.files[f].len] :
                   f \in {g \in Files : fs.files[g].exists}}
    /\ SchedIdle

AfterFile(rest) == IF rest = <<>> THEN "build" ELSE "read"

\* incremental_load up to its first read of a session file: on an empty
\* cache full_load's clear and listing, otherwise the listing, the diff and
\* the removal of the deleted files' records.
RaceBegin ==
    /\ rpc = "idle"
    /\ IF is_empty(cache)
       THEN \E listing \in {list_projects(fs)} :
                IF ~listing.ok
                THEN /\ cache' = clear(cache)
                     /\ last' = [op |-> "incremental_load", result |-> listing]
                     /\ UNCHANGED <<rpc, todo, listed>>
                ELSE /\ cache' = clear(cache)
                     /\ listed' = [projects |-> listing.val, full |-> TRUE]
                     /\ todo' = all_files_of(listing.val)
                     /\ rpc' = AfterFile(todo')
                     /\ last' = NoCall
       ELSE \E s \in {rescan_and_diff(cache, fs)} :
                IF ~s.ok
                THEN /\ last' = [op |-> "incremental_load", result |-> Err(s.err)]
                     /\ UNCHANGED <<cache, rpc, todo, listed>>
                ELSE /\ cache' = remove_files(s.cm, s.changes.deleted)
                     /\ listed' = [projects |-> s.projects, full |-> FALSE]
                     /\ todo' = s.changes.modified \o s.changes.new_files
                     /\ rpc' = AfterFile(todo')
                     /\ last' = NoCall
    /\ UNCHANGED <<fs, seen, writes, buf, hist, schedVars, pureVars>>

\* read_jsonl_file on the next file: its entries, or a logged failure.
RaceRead ==
    /\ rpc = "read"
    /\ \E r \in {open_and_read(fs, Head(todo))} :
           IF r.ok
           THEN /\ buf' = Some(r.val)
                /\ rpc' = "stat"
                /\ UNCHANGED todo
           ELSE /\ todo' = Tail(todo)
                /\ rpc' = AfterFile(todo')
                /\ UNCHANGED buf
    /\ UNCHANGED <<cacheVars, listed, hist, schedVars, pureVars>>

\* update_file_cache: the record gets the entries read and the mtime the
\* file has now.
RaceStat ==
    /\ rpc = "stat"
    /\ cache' = update_file_cache(cache, Head(todo), Unwrap(buf), fs, fs.clock)
    /\ buf' = None
    /\ todo' = Tail(todo)
    /\ rpc' = AfterFile(todo')
    /\ UNCHANGED <<fs, last, seen, writes, listed, hist, schedVars, pureVars>>

\* The rest of the refresh: the snapshot from the entries held for the
\* listed files.
RaceBuild ==
    /\ rpc = "build"
    /\ \E r \in {with_snapshot(IF listed.full
                                THEN mark_full_refresh(
                                         update_projects(cache, listed.projects))
                                ELSE cache,
                                listed.projects)} :
           /\ cache' = r.cm
           /\ last' = [op |-> "incremental_load", result |-> r.result]
    /\ rpc' = "idle"
    /\ listed' = [projects |-> <<>>, full |-> FALSE]
    /\ UNCHANGED <<fs, seen, writes, todo, buf, hist, schedVars, pureVars>>

\* The writer appends a line to a session file, at any moment.
WriterAppends(f) ==
    /\ writes < MaxWrites
    /\ fs.files[f].exists /\ fs.files[f].len < MaxLines
    /\ fs' = Written(f, fs.files[f].len + 1, TRUE)
    /\ hist' = hist \cup {[file |-> f, mtime |-> fs.clock + 1,
                           len |-> fs.files[f].len + 1]}
    /\ writes' = writes + 1
    /\ UNCHANGED <<cache, last, seen, rpc, todo, buf, listed, schedVars, pureVars>>

RaceNext ==
    \/ RaceBegin
    \/ RaceRead
    \/ RaceStat
    \/ RaceBuild
    \/ \E f \in Files : WriterAppends(f)

RaceSpec == RaceInit /\ [][RaceNext]_vars

\* The record of file f holds the parse of the content f had at the
\* record's mtime.
RecordMatchesDisk(f) ==
    \E h \in hist :
        /\ h.file = f
        /\ h.mtime = cache.file_cache[f].mtime
        /\ cache.file_cache[f].entries = read_jsonl_file(Content(f, h.len))

\* C2: whenever a refresh has completed, every record of the registry
\* holds the parse of the content its file had at the record's mtime,
\* however the writer's appends fell between the steps of the refresh.
C2_RecordsMatchTheirMtime ==
    (rpc = "idle" /\ last.op = "incremental_load" /\ last.result.ok)
        => \A f \in DOMAIN cache.file_cache : RecordMatchesDisk(f)

(***************************************************************************)
(* SchedSpec: the timer task of start_background_refresh and the threads   *)
(* serving get_usage_stats_incremental, sharing the cache behind its       *)
(* mutex.  A step runs a thread up to its next blocking call or to the     *)
(* end of a call on the file system, the cache or the telemetry store.     *)
(* Time is the distance to the interval's next deadline.  A thread that    *)
(* panics while it holds the mutex poisons it; the model lets a command    *)
(* thread do so.                                                           *)
(***************************************************************************)
\* BACKGROUND_REFRESH_INTERVAL_SECS
Period == 5

\* The furthest the clock runs past a deadline of the interval.
MaxLag == 6

\* The disks the application runs on: no projects directory, one session
\* file, a session file in every project.
SchedDisks ==
    {[root |-> "missing", files |-> [f \in Files |-> NoFile], clock |-> 1]}
    \cup {[root |-> "ok", files |-> files, clock |-> 1] :
              files \in {fl \in InitFiles :
                            fl["f1"].exists /\ ~fl["f2"].exists}}

SchedInit ==
    /\ fs \in SchedDisks
    /\ cache = EmptyCache
    /\ last = NoCall
    /\ seen = [files |-> [f \in Files |-> NoFile], by |-> "none"]
    /\ writes = 0
    /\ RaceIdle /\ hist = {}
    /\ PureIdle
    /\ pc = [t \in Threads |-> IF t = Timer THEN "start" ELSE "idle"]
    /\ holders = {}
    /\ poisoned = FALSE
    /\ until = 0
    /\ timer = TimerIdle
    /\ cmd = [c \in Commands |-> CmdIdle]
    /\ env \in [telemetry : BOOLEAN, managed : BOOLEAN]

\* An operator standing for a lock that every thread gets at once.
can_lock_unguarded == TRUE

\* Mutex::lock returns once no thread holds the mutex.
can_lock == holders = {}

\* The interval's next deadline: the one that fired plus the period,
\* however late it fired (the interval is created with the default
\* behaviour for missed ticks).
next_timeout(deadline) == deadline + Period

\* A loop that gives up after a failed refresh.
after_outcome_fatal(kind) == IF kind = "refresh_err" THEN "done" ELSE "wait"

\* Where the loop goes after an iteration: every arm ends at the loop's top.
after_outcome(kind) == "wait"

merge_telemetry_jsonl(telemetry_data, jsonl_data) ==
    IF IsSome(telemetry_data) /\ IsSome(jsonl_data) THEN Some("merged")
    ELSE IF IsSome(telemetry_data) THEN telemetry_data
    ELSE IF IsSome(jsonl_data) THEN jsonl_data
    ELSE None

\* TelemetryStorage::new and reader.get_usage_data(..).ok(): the telemetry
\* store belongs to another component; it yields data or none.
TelemetryReads == {None, Some("telemetry")}

\* app_handle.emit: the event reaches the consumer, or the emit fails and
\* is logged.
Emitted(event, delivered) ==
    IF delivered THEN Outcome("success", event, FALSE)
    ELSE Outcome("emit_failed", "none", TRUE)

\* The end of the timer's iteration: the guard goes out of scope.
TimerEnds(outcome) ==
    /\ timer' = [TimerIdle EXCEPT !.lag = timer.lag, !.outcome = outcome]
    /\ pc' = [pc EXCEPT ![Timer] = after_outcome(outcome.kind)]
    /\ holders' = holders \ {Timer}

\* interval(..) and the first, immediate tick.
TimerStart ==
    /\ pc[Timer] = "start"
    /\ until' = next_timeout(until)
    /\ pc' = [pc EXCEPT ![Timer] = "wait"]
    /\ UNCHANGED <<cacheVars, raceVars, pureVars, holders, poisoned, timer, cmd, env>>

\* ticker.tick() returns once the deadline is reached, at once when it has
\* passed; then the data source and the application state are looked up.
TimerTick ==
    /\ pc[Timer] = "wait"
    /\ until <= 0
    /\ until' = next_timeout(until)
    /\ IF env.managed
       THEN /\ timer' = [TimerIdle EXCEPT !.lag = -until]
            /\ pc' = [pc EXCEPT ![Timer] = "lock"]
       ELSE /\ timer' = [TimerIdle EXCEPT !.lag = -until,
                                          !.outcome = Outcome("no_state", "none", TRUE)]
            /\ pc' = [pc EXCEPT ![Timer] = after_outcome("no_state")]
    /\ UNCHANGED <<cacheVars, raceVars, pureVars, holders, poisoned, cmd, env>>

\* state.cache.lock(): the guard, or the poison error, which the loop logs
\* before it goes on to the next tick.
TimerLock ==
    /\ pc[Timer] = "lock"
    /\ can_lock
    /\ IF poisoned
       THEN /\ timer' = [timer EXCEPT !.outcome = Outcome("lock_err", "none", TRUE)]
            /\ pc' = [pc EXCEPT ![Timer] = after_outcome("lock_err")]
            /\ UNCHANGED holders
       ELSE /\ holders' = holders \cup {Timer}
            /\ pc' = [pc EXCEPT ![Timer] = IF env.telemetry THEN "telemetry"
                                            ELSE "check"]
            /\ UNCHANGED timer
    /\ UNCHANGED <<cacheVars, raceVars, pureVars, poisoned, until, cmd, env>>

\* Telemetry arm: the telemetry store is read.
TimerTelemetry ==
    /\ pc[Timer] = "telemetry"
    /\ \E t \in TelemetryReads : timer' = [timer EXCEPT !.telemetry_data = t]
    /\ pc' = [pc EXCEPT ![Timer] = "load"]
    /\ UNCHANGED <<cacheVars, raceVars, pureVars, holders, poisoned, until, cmd, env>>

\* Telemetry arm: cache.incremental_load(..).ok().
TimerLoad ==
    /\ pc[Timer] = "load"
    /\ \E r \in {incremental_load(cache, fs)} :
           /\ cache' = r.cm
           /\ timer' = [timer EXCEPT !.jsonl_data =
                            IF r.result.ok THEN Some("jsonl") ELSE None]
    /\ pc' = [pc EXCEPT ![Timer] = "merge"]
    /\ UNCHANGED <<fs, last, seen, writes, raceVars, pureVars, holders, poisoned, until,
                   cmd, env>>

\* Telemetry arm: the merge and the event for its result.
TimerMerge ==
    /\ pc[Timer] = "merge"
    /\ LET merged == merge_telemetry_jsonl(timer.telemetry_data, timer.jsonl_data)
       IN  \E delivered \in BOOLEAN :
               TimerEnds(Emitted(IF IsSome(merged) THEN "delta" ELSE "heartbeat",
                                 delivered))
    /\ UNCHANGED <<cacheVars, raceVars, pureVars, poisoned, until, cmd, env>>

\* File arm: cache.has_changes, and the heartbeat when there are none.
TimerCheck ==
    /\ pc[Timer] = "check"
    /\ IF has_changes(cache, fs)
       THEN /\ pc' = [pc EXCEPT ![Timer] = "delta"]
            /\ UNCHANGED <<timer, holders>>
       ELSE \E delivered \in BOOLEAN : TimerEnds(Emitted("heartbeat", delivered))
    /\ UNCHANGED <<cacheVars, raceVars, pureVars, poisoned, until, cmd, env>>

\* File arm: cache.incremental_load_with_delta and the event for its delta.
TimerDelta ==
    /\ pc[Timer] = "delta"
    /\ \E r \in {incremental_load_with_delta(cache, fs)} :
           /\ cache' = r.cm
           /\ IF r.result.ok
              THEN \E delivered \in BOOLEAN : TimerEnds(Emitted("delta", delivered))
              ELSE TimerEnds(Outcome("refresh_err", "none", TRUE))
    /\ UNCHANGED <<fs, last, seen, writes, raceVars, pureVars, poisoned, until, cmd, env>>

TimerStep ==
    \/ TimerStart
    \/ TimerTick
    \/ TimerLock
    \/ TimerTelemetry
    \/ TimerLoad
    \/ TimerMerge
    \/ TimerCheck
    \/ TimerDelta

\* The end of a command: what its caller receives.
CmdReturns(c, outcome) ==
    /\ cmd' = [cmd EXCEPT ![c] = [CmdIdle EXCEPT !.reply = outcome]]
    /\ pc' = [pc EXCEPT ![c] = "idle"]

\* The front end invokes get_usage_stats_incremental.
CmdInvoke(c) ==
    /\ pc[c] = "idle"
    /\ env.managed
    /\ cmd' = [cmd EXCEPT ![c] = CmdIdle]
    /\ pc' = [pc EXCEPT ![c] = IF env.telemetry THEN "telemetry" ELSE "lock"]
    /\ UNCHANGED <<cacheVars, raceVars, pureVars, holders, poisoned, until, timer, env>>

\* Telemetry arm: the telemetry store is opened and read.
CmdTelemetry(c) ==
    /\ pc[c] = "telemetry"
    /\ \/ CmdReturns(c, Outcome("telemetry_err", "error", FALSE))
       \/ /\ \E t \in TelemetryReads : cmd' = [cmd EXCEPT ![c].telemetry_data = t]
          /\ pc' = [pc EXCEPT ![c] = "lock"]
    /\ UNCHANGED <<cacheVars, raceVars, pureVars, holders, poisoned, until, timer, env>>

\* state.cache.lock().map_err(..)?
CmdLock(c) ==
    /\ pc[c] = "lock"
    /\ can_lock
    /\ IF poisoned
       THEN /\ CmdReturns(c, Outcome("lock_err", "error", FALSE))
            /\ UNCHANGED holders
       ELSE /\ holders' = holders \cup {c}
            /\ pc' = [pc EXCEPT ![c] = "load"]
            /\ UNCHANGED cmd
    /\ UNCHANGED <<cacheVars, raceVars, pureVars, poisoned, until, timer, env>>

\* full_load or incremental_load under the guard; the guard is dropped at
\* the end of the block (telemetry arm) or of the command (file arm).
CmdLoad(c) ==
    /\ pc[c] = "load"
    /\ \E force_full \in BOOLEAN :
           \E r \in {IF force_full THEN full_load(cache, fs)
                     ELSE incremental_load(cache, fs)} :
               /\ cache' = r.cm
               /\ IF env.telemetry
                  THEN /\ cmd' = [cmd EXCEPT ![c].jsonl_data =
                                      IF r.result.ok THEN Some("jsonl") ELSE None]
                       /\ pc' = [pc EXCEPT ![c] = "merge"]
                  ELSE CmdReturns(c, IF r.result.ok
                                     THEN Outcome("success", "data", FALSE)
                                     ELSE Outcome("refresh_err", "error", FALSE))
    /\ holders' = holders \ {c}
    /\ UNCHANGED <<fs, last, seen, writes, raceVars, pureVars, poisoned, until, timer, env>>

\* Telemetry arm: the merge, and "No data available" when both are missing.
CmdMerge(c) ==
    /\ pc[c] = "merge"
    /\ LET merged == merge_telemetry_jsonl(cmd[c].telemetry_data, cmd[c].jsonl_data)
       IN  CmdReturns(c, IF IsSome(merged) THEN Outcome("success", "data", FALSE)
                         ELSE Outcome("no_data", "error", FALSE))
    /\ UNCHANGED <<cacheVars, raceVars, pureVars, holders, poisoned, until, timer, env>>

\* The thread panics in the load: the guard is dropped while unwinding and
\* marks the mutex poisoned.
CmdPanic(c) ==
    /\ pc[c] = "load"
    /\ c \in holders
    /\ poisoned' = TRUE
    /\ holders' = holders \ {c}
    /\ CmdReturns(c, Outcome("panic", "none", FALSE))
    /\ UNCHANGED <<cacheVars, raceVars, pureVars, until, timer, env>>

CmdStep(c) ==
    \/ CmdTelemetry(c)
    \/ CmdLock(c)
    \/ CmdLoad(c)
    \/ CmdMerge(c)

\* A second passes.  A timer whose deadline is reached fires before the
\* clock moves on.
AdvanceTime ==
    /\ pc[Timer] /= "start"
    /\ ~(pc[Timer] = "wait" /\ until <= 0)
    /\ until > -MaxLag
    /\ until' = until - 1
    /\ UNCHANGED <<cacheVars, raceVars, pureVars, pc, holders, poisoned, timer, cmd, env>>

SchedNext ==
    \/ TimerStep
    \/ \E c \in Commands : CmdInvoke(c)
    \/ \E c \in Commands : CmdStep(c)
    \/ \E c \in Commands : CmdPanic(c)
    \/ AdvanceTime

SchedSpec == SchedInit /\ [][SchedNext]_vars

\* The application with one command in flight at a time.
LiveNext ==
    \/ TimerStep
    \/ CmdInvoke("c1")
    \/ CmdStep("c1")
    \/ CmdPanic("c1")
    \/ AdvanceTime

\* LiveSpec: SchedSpec with a fair timer.  The runtime runs the timer
\* task whenever it can take a step; a mutex that is released again and
\* again is eventually granted to the timer; a command that holds the lock
\* finishes its load; time goes on.
LiveSpec ==
    /\ SchedInit
    /\ [][LiveNext]_vars
    /\ WF_vars(TimerStep)
    /\ SF_vars(TimerLock)
    /\ WF_vars(AdvanceTime)
    /\ WF_vars(CmdLoad("c1") \/ CmdPanic("c1"))

(***************************************************************************)
(* Claims about the scheduling, checked under SchedSpec and LiveSpec.      *)
(***************************************************************************)
\* Thread t stands before a call of has_changes, incremental_load,
\* incremental_load_with_delta or full_load.
InCacheOp(t) == pc[t] \in {"check", "delta", "load"}

\* C6: a thread that is executing a refresh or a change check on the
\* shared cache manager is the one holder of the cache lock, so no two of
\* them execute at the same time.
C6_OneRefreshAtATime ==
    \A t \in Threads : InCacheOp(t) => holders = {t}

\* C6 witness: a command is in its load while the timer task and the
\* other command wait for the lock.
C6_Witness ==
    /\ pc["c1"] = "load" /\ holders = {"c1"}
    /\ pc[Timer] = "lock" /\ pc["c2"] = "lock"

\* C7: a timer-driven refresh never starts between two scheduled ticks:
\* after an overrun the loop waits for the next scheduled tick.
C7_NoCatchUpTick == timer.lag % Period = 0

\* C8: an attempt that fails to get the cache lock ends with an error
\* delivered to the caller of the command or the consumer of the timer's
\* events.
C8_LockFailureSurfaced ==
    /\ timer.outcome.kind = "lock_err" => timer.outcome.received = "error"
    /\ \A c \in Commands :
           cmd[c].reply.kind = "lock_err" => cmd[c].reply.received = "error"

\* C9: no thread reads the telemetry store or merges its data while it
\* holds the cache lock.
C9_TelemetryOutsideLock ==
    \A t \in Threads : pc[t] \in {"telemetry", "merge"} => t \notin holders

MaxFileLen == 3

\* An event with tokens at top level.
ReaderEvent(mid, rid, ts, input, output) ==
    SessionEvent(Some("user"), None, ts, None,
                 Some(Usage(Some(input), Some(output), None, None)), mid, rid)

ReaderLines ==
    { BlankLine, BadLine,
      \* one id pair, two events with different counts and times
      EventLine(ReaderEvent(Some("a"), Some("b:c"), TsUtc(65), 10, 5)),
      EventLine(ReaderEvent(Some("a"), Some("b:c"), TsUtc(70), 20, 10)),
      \* another id pair
      EventLine(ReaderEvent(Some("a:b"), Some("c"), TsUtc(75), 1, 1)),
      \* events that lack the request id, the message id
      EventLine(ReaderEvent(Some("a"), None, TsUtc(65), 3, 0)),
      EventLine(ReaderEvent(None, Some("c"), TsUtc(65), 3, 0)),
      \* ids that look like a generated key
      EventLine(ReaderEvent(Some("no_dedup_0_0 1"), Some("5 UTC"), TsUtc(80), 7, 7)),
      \* ids that are present and empty, a request id that is "unknown"
      EventLine(ReaderEvent(Some(""), Some("c"), TsUtc(65), 4, 0)),
      EventLine(ReaderEvent(Some("a"), Some(""), TsUtc(65), 4, 0)),
      EventLine(ReaderEvent(Some("a"), Some("unknown"), TsUtc(65), 4, 0)),
      \* events with both ids that are no usage events: a timestamp that
      \* does not parse, no token counts
      EventLine(ReaderEvent(Some("a"), Some("b:c"), TsGarbage, 30, 30)),
      EventLine(SessionEvent(Some("user"), None, TsUtc(90), None, Some(NoTokens),
                             Some("a"), Some("b:c"))) }

ReaderInputs == UNION {[1..n -> ReaderLines] : n \in 0..MaxFileLen}

\* Events of every kind with every combination of a nested and a top-level
\* token source: absent, without counts, with zero counts, with cache
\* counts only, with input and output counts.
TokenSources ==
    {None, Some(NoTokens), Some(Usage(Some(0), Some(0), None, None)),
     Some(Usage(Some(0), None, Some(8), Some(9)))}

NestedSources ==
    TokenSources \cup {Some(Usage(Some(10), Some(5), Some(1), None)),
                       Some(Usage(None, Some(6), None, None))}

TopSources ==
    TokenSources \cup {Some(Usage(Some(20), None, None, Some(2)))}

TokenEvents ==
    {SessionEvent(ty, msg, ts, None, usage, Some("m"), Some("r")) :
        ty \in {Some("assistant"), Some("user"), None},
        msg \in {None} \cup {Some(Message(None, None, u)) : u \in NestedSources},
        ts \in {TsUtc(65), TsGarbage, None},
        usage \in TopSources}

\* Usage events with every combination of a nested message id, a top-level
\* message id and a request id: absent, present, and two different ones.
IdEvents ==
    {SessionEvent(Some("assistant"),
                  Some(Message(nested, None, Some(Usage(Some(10), Some(5), None, None)))),
                  TsUtc(65), None, None, top, rid) :
        nested \in {None, Some("n"), Some("m")},
        top \in {None, Some("m"), Some("")},
        rid \in {None, Some("r")}}
    \cup {SessionEvent(Some("user"), None, TsUtc(65), None,
                       Some(Usage(Some(20), None, None, None)), top, rid) :
              top \in {None, Some("m")}, rid \in {None, Some("r")}}

ReaderInit ==
    /\ fs = [root |-> "ok", files |-> [f \in Files |-> NoFile], clock |-> 1]
    /\ cache = EmptyCache
    /\ last = NoCall
    /\ seen = [files |-> [f \in Files |-> NoFile], by |-> "none"]
    /\ writes = 0
    /\ RaceIdle /\ hist = {}
    /\ SchedIdle
    /\ call \in {[op |-> "open", lines |-> lines] : lines \in ReaderInputs}
                \cup {[op |-> "line", event |-> event] :
                         event \in TokenEvents \cup IdEvents}

\* The file is opened and read to its end.
ReadFile ==
    /\ call.op = "open"
    /\ call' = [op |-> "read_jsonl_file", lines |-> call.lines,
                result |-> Ok(read_jsonl_file(call.lines))]
    /\ UNCHANGED <<cacheVars, raceVars, schedVars>>

\* A line that holds an event is turned into an entry, or dropped.
ProcessEvent ==
    /\ call.op = "line"
    /\ call' = [op |-> "process_event", event |-> call.event,
                result |-> process_event(call.event)]
    /\ UNCHANGED <<cacheVars, raceVars, schedVars>>

ReaderNext ==
    \/ ReadFile
    \/ ProcessEvent

ReaderSpec == ReaderInit /\ [][ReaderNext]_vars

\* The lines of the file read that hold a usage event, by number (1-based).
UsageLines ==
    {i \in DOMAIN call.lines : IsSome(parse_line(call.lines[i]))}

\* The ids deduplication goes by: the message id and the request id.
IdPair(event) ==
    [message_id |-> IF IsSome(event.message) /\ IsSome(Unwrap(event.message).id)
                    THEN Unwrap(event.message).id ELSE event.message_id,
     request_id |-> event.request_id]

HasBothIds(event) ==
    IsSome(IdPair(event).message_id) /\ IsSome(IdPair(event).request_id)

KeyedLines == {i \in UsageLines : HasBothIds(call.lines[i].event)}
UnkeyedLines == UsageLines \ KeyedLines

\* The usage lines that carry the id pair of line i.
SamePair(i) ==
    {j \in KeyedLines : IdPair(call.lines[j].event) = IdPair(call.lines[i].event)}

EntryOfLine(i) == Unwrap(parse_line(call.lines[i]))

\* How often an entry occurs among the entries returned.
Occurrences(entry) ==
    Cardinality({k \in DOMAIN call.result.val : call.result.val[k] = entry})

\* The entries returned that carry the ids of line i.
EntriesWithIdsOf(i) ==
    {k \in DOMAIN call.result.val :
        /\ Some(call.result.val[k].message_id) = IdPair(call.lines[i].event).message_id
        /\ Some(call.result.val[k].request_id) = IdPair(call.lines[i].event).request_id}

\* The key line i is stored under, and what tells its entry from the
\* others: the id pair, or the line itself.
KeyOfLine(i) == entry_key(call.lines[i].event, i - 1, EntryOfLine(i))

IdentityOfLine(i) ==
    IF i \in KeyedLines THEN <<"ids", IdPair(call.lines[i].event)>>
    ELSE <<"line", i>>

\* Lines of different identity are stored under different keys.
KeysTellApart ==
    \A i, j \in UsageLines :
        KeyOfLine(i) = KeyOfLine(j) => IdentityOfLine(i) = IdentityOfLine(j)

\* The events that lack an id and whose entries carry the ids of line i all
\* the same: an absent message id is stored as "", an absent request id as
\* "unknown".
UnkeyedLookalikes(i) ==
    {j \in UnkeyedLines :
        /\ Some(EntryOfLine(j).message_id) = IdPair(call.lines[i].event).message_id
        /\ Some(EntryOfLine(j).request_id) = IdPair(call.lines[i].event).request_id}

\* The events with the id pair of line i give one entry, that of the last
\* of them: the entries returned with these ids are that one and those of
\* the events that lack an id.
OneEntryLastWins(i) ==
    LET last_entry == EntryOfLine(SetMax(SamePair(i)))
        found == {call.result.val[k] : k \in EntriesWithIdsOf(i)} \cup {last_entry}
        own(entry) == IF entry = last_entry THEN 1 ELSE 0
    IN  \A entry \in found :
            Occurrences(entry)
                = own(entry)
                    + Cardinality({j \in UnkeyedLookalikes(i) : EntryOfLine(j) = entry})

\* C14 as stated: in one file, the usage events that share a (message id,
\* request id) pair give exactly one entry, with the counts, cost and
\* timestamp of the last of them, whatever else the file holds.
C14_LastOfPairWins ==
    call.op = "read_jsonl_file" => \A i \in KeyedLines : OneEntryLastWins(i)

\* C14 as it holds: the same, in a file where no two usage events with
\* different id pairs, and no event with ids and one without, are stored
\* under the same key string.
C14_LastOfPairWinsUnderDistinctKeys ==
    (call.op = "read_jsonl_file" /\ KeysTellApart)
        => \A i \in KeyedLines : OneEntryLastWins(i)

\* C14 witness: a file with two events of one pair, the second with other
\* counts, and an event without ids between them.
C14_Witness ==
    /\ call.op = "read_jsonl_file" /\ KeysTellApart
    /\ Len(call.lines) = 3
    /\ {1, 3} \subseteq KeyedLines /\ 2 \in UnkeyedLines
    /\ SamePair(1) = {1, 3}
    /\ EntryOfLine(1) /= EntryOfLine(3)
    /\ Len(call.result.val) = 2

\* C15: every usage event that lacks the message id or the request id has
\* an entry of its own among the entries returned: as many entries equal
\* its entry as there are such events with that entry.
C15_UnkeyedEventsAllKept ==
    call.op = "read_jsonl_file"
        => \A i \in UnkeyedLines :
               Occurrences(EntryOfLine(i))
                   >= Cardinality({j \in UnkeyedLines : EntryOfLine(j) = EntryOfLine(i)})

\* Both ids are present, the message id is not empty and the request id
\* is neither empty nor "unknown".
SentinelFree(event) ==
    /\ HasBothIds(event)
    /\ Unwrap(IdPair(event).message_id) /= ""
    /\ Unwrap(IdPair(event).request_id) \notin {"", "unknown"}

\* What the claim tells the entry of line i from the others by: the id
\* pair when both ids are usable, the line itself otherwise.
DedupIdentity(i) ==
    IF SentinelFree(call.lines[i].event)
    THEN <<"ids", IdPair(call.lines[i].event)>>
    ELSE <<"line", i>>

\* C29: two usage events of one file give one entry only if both have a
\* message id and a request id that are present, not empty and not
\* "unknown", and the same id pair; every event with an empty id or the
\* request id "unknown" keeps an entry of its own.  So the file gives at
\* least as many entries as it has id pairs and such events.
C29_CollapsedOnlyOnEqualUsableIds ==
    call.op = "read_jsonl_file"
        => Len(call.result.val) >= Cardinality({DedupIdentity(i) : i \in UsageLines})

\* The token sources of the event processed, in the order the claim gives:
\* nested then top-level for an "assistant" event, top-level then nested
\* for any other.
SourcesInOrder ==
    IF call.event.event_type = Some("assistant")
    THEN <<MessageUsage(call.event), call.event.usage>>
    ELSE <<call.event.usage, MessageUsage(call.event)>>

Positive(source) ==
    /\ IsSome(source)
    /\ \/ UnwrapOr(Unwrap(source).input_tokens, 0) > 0
       \/ UnwrapOr(Unwrap(source).output_tokens, 0) > 0

WinningSource ==
    IF Positive(SourcesInOrder[1]) THEN SourcesInOrder[1]
    ELSE IF Positive(SourcesInOrder[2]) THEN SourcesInOrder[2]
    ELSE None

HasCountsOf(entry, source) ==
    /\ entry.input_tokens = UnwrapOr(source.input_tokens, 0)
    /\ entry.output_tokens = UnwrapOr(source.output_tokens, 0)
    /\ entry.cache_creation_tokens = UnwrapOr(source.cache_creation_tokens, 0)
    /\ entry.cache_read_tokens = UnwrapOr(source.cache_read_tokens, 0)

\* C16: the counts of an entry are those of the first source in priority
\* order with a positive input or output count; an event without such a
\* source gives no entry.
C16_FirstPositiveSourceWins ==
    call.op = "process_event"
        => /\ WinningSource = None => call.result = None
           /\ IsSome(call.result)
                  => /\ IsSome(WinningSource)
                     /\ HasCountsOf(Unwrap(call.result), Unwrap(WinningSource))
           /\ (IsSome(WinningSource) /\ IsSome(call.event.timestamp)
               /\ IsSome(parse_timestamp(Unwrap(call.event.timestamp))))
                  => IsSome(call.result)

\* C16 witness: an "assistant" event whose two sources both have positive
\* counts, and different ones; the entry has the nested counts.
C16_Witness ==
    /\ call.op = "process_event"
    /\ call.event.event_type = Some("assistant")
    /\ Positive(call.event.usage) /\ Positive(MessageUsage(call.event))
    /\ IsSome(call.result)
    /\ ~HasCountsOf(Unwrap(call.result), Unwrap(call.event.usage))

\* The message id the claim gives an entry: the nested one when the event
\* has it, the top-level one otherwise, "" when it has neither.
NestedFirstId(event) ==
    IF IsSome(IdPair(event).message_id) THEN Unwrap(IdPair(event).message_id) ELSE ""

\* C30: the message id of an entry is the nested id of the event when it
\* has one and the top-level message id otherwise, so the deduplication key
\* of the event, when it has one, is made of the ids of its entry; the
\* request id is the top-level one, or "unknown".
C30_EntryCarriesKeyIds ==
    (call.op = "process_event" /\ IsSome(call.result))
        => LET entry == Unwrap(call.result)
               key == get_dedup_key(call.event)
           IN  /\ entry.message_id = NestedFirstId(call.event)
               /\ IsSome(key)
                     => Unwrap(key) = entry.message_id \o ":" \o entry.request_id
               /\ entry.request_id = UnwrapOr(call.event.request_id, "unknown")

\* Line i of the file read is one the claim says is skipped: a blank, a
\* line that is not structured data, an event without a timestamp that
\* parses or without a source with a positive input or output count.
Skipped(i) ==
    LET line == call.lines[i]
    IN  \/ line.kind /= "event"
        \/ line.event.timestamp = None
        \/ Unwrap(line.event.timestamp).shape /= "utc"
        \/ ~Positive(line.event.usage) /\ ~Positive(MessageUsage(line.event))

\* The file without its line i.
WithoutLine(lines, i) ==
    [k \in 1..(Len(lines) - 1) |-> IF k < i THEN lines[k] ELSE lines[k + 1]]

\* The same entries, each as often, in any order.
SameEntries(a, b) ==
    \A entry \in SeqRange(a) \cup SeqRange(b) :
        Cardinality({k \in DOMAIN a : a[k] = entry})
            = Cardinality({k \in DOMAIN b : b[k] = entry})

SkippedLinesLeaveNoTrace ==
    /\ call.result.ok
    /\ \A i \in DOMAIN call.lines :
           Skipped(i) => SameEntries(call.result.val,
                                     read_jsonl_file(WithoutLine(call.lines, i)))

\* An event with both ids whose key is the key generated for an event
\* without ids at some line of a file of this length.
ImitatesGeneratedKey ==
    \E j \in KeyedLines, i \in UnkeyedLines, n \in 0..Len(call.lines) :
        KeyOfLine(j) = entry_key(call.lines[i].event, n, EntryOfLine(i))

TicksPerSecond == 2
Seconds(n) == n * TicksPerSecond
Minutes(n) == Seconds(60 * n)
Hours(n) == Minutes(60 * n)

SESSION_DURATION_MINUTES == 300

\* Rust's integer division and remainder: towards zero, the remainder with
\* the sign of the dividend.
TruncDiv(a, b) == IF a >= 0 THEN a \div b ELSE -((-a) \div b)
TruncRem(a, b) == a - b * TruncDiv(a, b)

\* chrono TimeDelta::num_seconds and num_minutes: whole units, towards zero.
num_seconds(d) == TruncDiv(d, TicksPerSecond)
num_minutes(d) == TruncDiv(num_seconds(d), 60)

\* with_minute(0), with_second(0), with_nanosecond(0): the start of the hour.
start_of_hour(t) == t - (t % Hours(1))

\* A time to reset without the test for a start in the future.
time_to_reset_unchecked(session_start, now) ==
    IF session_start = None THEN SESSION_DURATION_MINUTES
    ELSE Max2(SESSION_DURATION_MINUTES
                - TruncRem(num_minutes(now - Unwrap(session_start)),
                           SESSION_DURATION_MINUTES), 0)

\* usage/cache.rs calculate_time_to_reset (usage/stats.rs has the same).
calculate_time_to_reset(session_start, now) ==
    IF session_start = None THEN SESSION_DURATION_MINUTES
    ELSE The({IF elapsed_minutes < 0 THEN SESSION_DURATION_MINUTES
              ELSE Max2(SESSION_DURATION_MINUTES
                          - TruncRem(elapsed_minutes, SESSION_DURATION_MINUTES), 0) :
                elapsed_minutes \in {num_minutes(now - Unwrap(session_start))}})

\* The f64 amounts of the burn rate, as fractions in lowest terms: the
\* rounding of floating point is left out, the divisions are not.
RECURSIVE GCD(_, _)
GCD(a, b) == IF b = 0 THEN a ELSE GCD(b, a % b)

Frac(n, d) == The({[n |-> n \div g, d |-> d \div g] : g \in {GCD(n, d)}})
Zero == Frac(0, 1)
FracAdd(x, y) == Frac(x.n * y.d + y.n * x.d, x.d * y.d)
FracMul(x, y) == Frac(x.n * y.n, x.d * y.d)
FracDiv(x, k) == Frac(x.n, x.d * k)

\* The fields of a usage entry that the session timing reads.
TimedEntry(ts, input, output, cost) ==
    [timestamp |-> ts, input_tokens |-> input, output_tokens |-> output,
     cost_usd |-> cost]

SessionBlock(start, end) ==
    [start_time |-> start, actual_end_time |-> end, total_tokens |-> 0,
     total_cost |-> 0, is_active |-> FALSE]

\* A loop that opens a new block only after the 5 hours of the open one,
\* not at their end.
RECURSIVE fold_blocks_late(_, _, _)
fold_blocks_late(entries, blocks, current_block) ==
    IF entries = <<>> THEN [blocks |-> blocks, current_block |-> current_block]
    ELSE LET entry == Head(entries)
             should_create_new ==
                 \/ current_block = None
                 \/ entry.timestamp > Unwrap(current_block).start_time + Hours(5)
             block == IF should_create_new
                      THEN SessionBlock(start_of_hour(entry.timestamp), entry.timestamp)
                      ELSE Unwrap(current_block)
         IN  fold_blocks_late(
                 Tail(entries),
                 IF should_create_new /\ IsSome(current_block)
                 THEN Append(blocks, Unwrap(current_block)) ELSE blocks,
                 Some([block EXCEPT
                          !.total_tokens = @ + entry.input_tokens + entry.output_tokens,
                          !.total_cost = @ + entry.cost_usd,
                          !.actual_end_time = entry.timestamp]))

\* The loop of transform_to_blocks: the blocks closed so far and the block
\* that is open.
RECURSIVE fold_blocks(_, _, _)
fold_blocks(entries, blocks, current_block) ==
    IF entries = <<>> THEN [blocks |-> blocks, current_block |-> current_block]
    ELSE LET entry == Head(entries)
             should_create_new ==
                 \/ current_block = None
                 \/ entry.timestamp >= Unwrap(current_block).start_time + Hours(5)
             block == IF should_create_new
                      THEN SessionBlock(start_of_hour(entry.timestamp), entry.timestamp)
                      ELSE Unwrap(current_block)
         IN  fold_blocks(
                 Tail(entries),
                 IF should_create_new /\ IsSome(current_block)
                 THEN Append(blocks, Unwrap(current_block)) ELSE blocks,
                 Some([block EXCEPT
                          !.total_tokens = @ + entry.input_tokens + entry.output_tokens,
                          !.total_cost = @ + entry.cost_usd,
                          !.actual_end_time = entry.timestamp]))

\* Blocks of which every one whose 5 hours have not passed is marked
\* active, not the last alone.
transform_to_blocks_all_marked(entries, block_now) ==
    IF entries = <<>> THEN <<>>
    ELSE The({[i \in 1..Len(all) |->
                  [all[i] EXCEPT !.is_active = all[i].start_time + Hours(5) > block_now]] :
                all \in {The({Append(f.blocks, Unwrap(f.current_block)) :
                                 f \in {fold_blocks(entries, <<>>, None)}})}})

\* usage/cache.rs transform_to_blocks; block_now is the clock it reads once
\* the entries are grouped.
transform_to_blocks(entries, block_now) ==
    IF entries = <<>> THEN <<>>
    ELSE The({Append(f.blocks,
                     [Unwrap(f.current_block) EXCEPT
                         !.is_active = Unwrap(f.current_block).start_time + Hours(5)
                                           > block_now]) :
                f \in {fold_blocks(entries, <<>>, None)}})

NoShare == [divisor |-> None, tokens |-> Zero, cost |-> Zero]

\* A share computed without the test for a positive session duration: the
\* quotient by zero is not a number, and adds nothing a comparison sees.
block_share_unguarded(block, current_time) ==
    LET one_hour_ago == current_time - Hours(1)
        session_actual_end == IF block.is_active THEN current_time
                              ELSE block.actual_end_time
        session_start_in_hour == Max2(block.start_time, one_hour_ago)
        session_end_in_hour == Min2(session_actual_end, current_time)
        total_session_duration == num_seconds(session_actual_end - block.start_time)
        hour_duration == num_seconds(session_end_in_hour - session_start_in_hour)
    IN  IF session_actual_end < one_hour_ago THEN NoShare
        ELSE IF session_end_in_hour <= session_start_in_hour THEN NoShare
        ELSE IF total_session_duration = 0
             THEN [NoShare EXCEPT !.divisor = Some(total_session_duration)]
             ELSE [divisor |-> Some(total_session_duration),
                   tokens |-> FracMul(Frac(block.total_tokens, 1),
                                      Frac(hour_duration, total_session_duration)),
                   cost |-> FracMul(Frac(block.total_cost, 1),
                                    Frac(hour_duration, total_session_duration))]

\* The body of the loop of calculate_hourly_burn_rate: what one block adds
\* to the tokens and the cost of the trailing hour, and the duration it
\* divides by, if it divides.  The two durations are minutes, each a
\* number of whole seconds over 60; their quotient is the quotient of the
\* seconds.
block_share(block, current_time) ==
    LET one_hour_ago == current_time - Hours(1)
        session_actual_end == IF block.is_active THEN current_time
                              ELSE block.actual_end_time
        session_start_in_hour == Max2(block.start_time, one_hour_ago)
        session_end_in_hour == Min2(session_actual_end, current_time)
        total_session_duration == num_seconds(session_actual_end - block.start_time)
        hour_duration == num_seconds(session_end_in_hour - session_start_in_hour)
    IN  IF session_actual_end < one_hour_ago THEN NoShare
        ELSE IF session_end_in_hour <= session_start_in_hour THEN NoShare
        ELSE IF total_session_duration > 0
             THEN [divisor |-> Some(total_session_duration),
                   tokens |-> FracMul(Frac(block.total_tokens, 1),
                                      Frac(hour_duration, total_session_duration)),
                   cost |-> FracMul(Frac(block.total_cost, 1),
                                    Frac(hour_duration, total_session_duration))]
             ELSE NoShare

RECURSIVE SumShares(_, _)
SumShares(shares, field) ==
    IF shares = <<>> THEN Zero
    ELSE FracAdd(Head(shares)[field], SumShares(Tail(shares), field))

\* usage/cache.rs calculate_hourly_burn_rate: tokens per minute and cost per
\* hour.
calculate_hourly_burn_rate(blocks, current_time) ==
    IF blocks = <<>> THEN <<Zero, Zero>>
    ELSE The({IF SumShares(shares, "tokens").n > 0
              THEN <<FracDiv(SumShares(shares, "tokens"), 60),
                     FracMul(FracDiv(SumShares(shares, "cost"), 60), Frac(60, 1))>>
              ELSE <<Zero, Zero>> :
                shares \in {[i \in 1..Len(blocks) |->
                                block_share(blocks[i], current_time)]}})

\* The durations calculate_hourly_burn_rate divides by, block by block.
burn_rate_divisors(blocks, current_time) ==
    {Unwrap(block_share(blocks[i], current_time).divisor) :
        i \in {j \in 1..Len(blocks) :
                  IsSome(block_share(blocks[j], current_time).divisor)}}

RECURSIVE sort_by_timestamp(_)
sort_by_timestamp(entries) ==
    IF entries = <<>> THEN <<>>
    ELSE LET rest == sort_by_timestamp(SubSeq(entries, 1, Len(entries) - 1))
             e == entries[Len(entries)]
             before == SelectSeq(rest, LAMBDA x : x.timestamp <= e.timestamp)
             after == SelectSeq(rest, LAMBDA x : x.timestamp > e.timestamp)
         IN  before \o <<e>> \o after

NoTiming ==
    [session_start_time |-> None,
     time_to_reset_minutes |-> SESSION_DURATION_MINUTES,
     burn_rate |-> None]

\* Amounts are rounded to a number of decimals: tokens per minute to
\* hundredths, cost per hour to ten-thousandths of a dollar.  In this
\* section a cost is a number of micro-dollars.
MicrosPerTenThousandth == 100
round_to(x, unit_num, unit_den) ==
    Frac(RoundDiv(x.n * unit_den, x.d * unit_num) * unit_num, unit_den)

\* usage/cache.rs calculate_usage_data, session timing and burn rate: now is
\* the clock read first, block_now the clock transform_to_blocks reads.
session_timing(all_entries, now, block_now) ==
    IF all_entries = <<>> THEN NoTiming
    ELSE LET window_start == now - Minutes(SESSION_DURATION_MINUTES)
             sorted == sort_by_timestamp(all_entries)
             recent_entries == SelectSeq(sorted, LAMBDA e : e.timestamp >= window_start)
             session_block_start == start_of_hour(Head(recent_entries).timestamp)
             rate == calculate_hourly_burn_rate(
                         transform_to_blocks(sorted, block_now), now)
         IN  IF recent_entries = <<>> THEN NoTiming
             ELSE [session_start_time |-> Some(session_block_start),
                   time_to_reset_minutes |->
                       calculate_time_to_reset(Some(session_block_start), now),
                   burn_rate |->
                       IF rate[1].n > 0
                       THEN Some([tokens_per_minute |-> round_to(rate[1], 1, 100),
                                  cost_per_hour |->
                                      round_to(rate[2], MicrosPerTenThousandth, 1)])
                       ELSE None]

\* The inputs: the clock, a session start before, at and after it, and
\* entries before, in and after the trailing hour, with and without input
\* and output tokens.
MaxEntries == 3
HalfSecond == TicksPerSecond \div 2

NowInstants == {Hours(10), Hours(10) + HalfSecond, Hours(10) + Minutes(30)}

ElapsedInstants ==
    {-Seconds(90), -Seconds(60), -Seconds(60) + HalfSecond, -HalfSecond, 0,
     HalfSecond, Seconds(60) - HalfSecond, Seconds(60), Minutes(299),
     Minutes(300) - HalfSecond, Minutes(300), Minutes(301), Minutes(600),
     Minutes(899)}

EntryInstants ==
    {Hours(3), Hours(5), Hours(5) + Minutes(30), Hours(8),
     Hours(9) + Minutes(30), Hours(10), Hours(13)}

TimedEntries ==
    {TimedEntry(ts, c[1], c[2], c[3]) :
        ts \in EntryInstants,
        c \in {<<0, 0, 0>>, <<0, 0, 2 * MicrosPerTenThousandth>>,
               <<2, 1, 4 * MicrosPerTenThousandth>>}}

RECURSIVE SeqsUpTo(_, _)
SeqsUpTo(S, n) ==
    IF n = 0 THEN {<<>>}
    ELSE SeqsUpTo(S, n - 1)
         \cup {Append(q, x) : q \in {r \in SeqsUpTo(S, n - 1) : Len(r) = n - 1},
                              x \in S}

StatsInit ==
    /\ fs = [root |-> "ok", files |-> [f \in Files |-> NoFile], clock |-> 1]
    /\ cache = EmptyCache
    /\ last = NoCall
    /\ seen = [files |-> [f \in Files |-> NoFile], by |-> "none"]
    /\ writes = 0
    /\ RaceIdle /\ hist = {}
    /\ SchedIdle
    /\ call \in {[op |-> "start", session_start |-> None, now |-> now] :
                    now \in NowInstants}
                \cup {[op |-> "start", session_start |-> Some(now - d), now |-> now] :
                        now \in NowInstants, d \in ElapsedInstants}
                \cup {[op |-> "entries", all_entries |-> entries, now |-> now,
                       block_now |-> now + lag] :
                        entries \in SeqsUpTo(TimedEntries, MaxEntries),
                        now \in NowInstants, lag \in {0, HalfSecond}}

\* The time to the reset of the session is computed.
TimeToReset ==
    /\ call.op = "start"
    /\ call' = [op |-> "calculate_time_to_reset",
                session_start |-> call.session_start, now |-> call.now,
                result |-> calculate_time_to_reset(call.session_start, call.now)]
    /\ UNCHANGED <<cacheVars, raceVars, schedVars>>

\* The session timing of a snapshot is computed: the blocks, the burn rate
\* and what the snapshot reports.
SessionTiming ==
    /\ call.op = "entries"
    /\ \E blocks \in {transform_to_blocks(sort_by_timestamp(call.all_entries),
                                          call.block_now)} :
          call' = [op |-> "session_timing", all_entries |-> call.all_entries,
                   now |-> call.now, block_now |-> call.block_now,
                   blocks |-> blocks,
                   rate |-> calculate_hourly_burn_rate(blocks, call.now),
                   divisors |-> burn_rate_divisors(blocks, call.now),
                   result |-> session_timing(call.all_entries, call.now,
                                             call.block_now)]
    /\ UNCHANGED <<cacheVars, raceVars, schedVars>>

StatsNext ==
    \/ TimeToReset
    \/ SessionTiming

StatsSpec == StatsInit /\ [][StatsNext]_vars

\* C19: calculate_time_to_reset returns a value from 0 to 300 for every
\* session start that is not later than now, and exactly 300 when there is
\* no session start or the session start is later than now.
C19_TimeToResetInRange ==
    call.op = "calculate_time_to_reset"
        => /\ (IsSome(call.session_start) /\ Unwrap(call.session_start) <= call.now)
                  => call.result \in 0..300
           /\ (call.session_start = None
               \/ (IsSome(call.session_start)
                   /\ Unwrap(call.session_start) > call.now))
                  => call.result = 300

\* C19 witness: a session that started a half second short of 300 minutes
\* ago has one minute left.
C19_Witness ==
    /\ call.op = "calculate_time_to_reset"
    /\ IsSome(call.session_start)
    /\ call.now - Unwrap(call.session_start) = Minutes(300) - HalfSecond
    /\ call.result = 1

\* The blocks whose span, from their start to their effective end, has
\* more than an instant in common with the hour that ends now.
OverlappingBlocks ==
    {i \in DOMAIN call.blocks :
        Min2(IF call.blocks[i].is_active THEN call.now
             ELSE call.blocks[i].actual_end_time, call.now)
          > Max2(call.blocks[i].start_time, call.now - Hours(1))}

\* C20: with no entries, with no block overlapping the trailing hour, or
\* with overlapping blocks that hold no input and output tokens, the burn
\* rate is the zero pair and the snapshot reports no burn rate; no zero
\* duration is divided by.
C20_ZeroBurnRate ==
    call.op = "session_timing"
        => /\ (\/ call.all_entries = <<>>
               \/ OverlappingBlocks = {}
               \/ \A i \in OverlappingBlocks : call.blocks[i].total_tokens = 0)
                  => /\ call.rate = <<Zero, Zero>>
                     /\ call.result.burn_rate = None
           /\ 0 \notin call.divisors

\* C20 witness: a block that overlaps the trailing hour and holds cost but
\* no input and output tokens; the burn rate is the zero pair.
C20_Witness ==
    /\ call.op = "session_timing"
    /\ OverlappingBlocks /= {}
    /\ \A i \in OverlappingBlocks :
          call.blocks[i].total_tokens = 0 /\ call.blocks[i].total_cost > 0
    /\ call.rate = <<Zero, Zero>>
    /\ call.result.burn_rate = None

\* The entries of the call, in the order transform_to_blocks is given them.
SortedEntries == sort_by_timestamp(call.all_entries)

\* The entries whose time lies in the 5 hours of block b, by position.
EntriesInWindow(b) ==
    {i \in DOMAIN SortedEntries :
        /\ call.blocks[b].start_time <= SortedEntries[i].timestamp
        /\ SortedEntries[i].timestamp < call.blocks[b].start_time + Hours(5)}

\* The blocks whose 5 hours hold the time of entry i.
BlocksHolding(i) == {b \in DOMAIN call.blocks : i \in EntriesInWindow(b)}

RECURSIVE TokensOf(_)
TokensOf(positions) ==
    IF positions = {} THEN 0
    ELSE LET i == CHOOSE x \in positions : TRUE
         IN  SortedEntries[i].input_tokens + SortedEntries[i].output_tokens
                 + TokensOf(positions \ {i})

\* C31: for entries sorted by time, every entry lies in exactly one block,
\* whose start is the start of an hour and at most the entry's time, which
\* is less than 5 hours later; the block holds the tokens of its entries;
\* the starts of consecutive blocks are at least 5 hours apart.
C31_BlocksPartitionEntries ==
    call.op = "session_timing"
        => /\ \A i \in DOMAIN SortedEntries : Cardinality(BlocksHolding(i)) = 1
           /\ \A b \in DOMAIN call.blocks :
                 /\ call.blocks[b].start_time % Hours(1) = 0
                 /\ EntriesInWindow(b) /= {}
                 /\ call.blocks[b].total_tokens = TokensOf(EntriesInWindow(b))
           /\ \A b \in 1..(Len(call.blocks) - 1) :
                 call.blocks[b + 1].start_time >= call.blocks[b].start_time + Hours(5)

\* C31 witness: three entries, the second exactly 5 hours after the start
\* of the block of the first, the third exactly 5 hours after that; three
\* blocks.
C31_Witness ==
    /\ call.op = "session_timing"
    /\ Len(call.blocks) = 3
    /\ call.blocks[2].start_time = call.blocks[1].start_time + Hours(5)
    /\ call.blocks[3].start_time = call.blocks[2].start_time + Hours(5)
    /\ call.blocks[1].total_tokens > 0

\* C32: of the blocks of transform_to_blocks only the last can be active,
\* and it is exactly when its start plus 5 hours is later than the clock
\* the function reads; every earlier block is inactive and ends at the
\* time of its last entry.
C32_OnlyLastBlockActive ==
    (call.op = "session_timing" /\ call.blocks /= <<>>)
        => /\ \A b \in 1..(Len(call.blocks) - 1) :
                 /\ ~call.blocks[b].is_active
                 /\ \E i \in EntriesInWindow(b) :
                       /\ call.blocks[b].actual_end_time = SortedEntries[i].timestamp
                       /\ \A j \in EntriesInWindow(b) :
                             SortedEntries[j].timestamp <= SortedEntries[i].timestamp
           /\ call.blocks[Len(call.blocks)].is_active
                 <=> call.blocks[Len(call.blocks)].start_time + Hours(5) > call.block_now

\* C32 witness: two blocks, neither with its 5 hours over; the last is
\* active, the one before is not.
C32_Witness ==
    /\ call.op = "session_timing"
    /\ Len(call.blocks) = 2
    /\ call.blocks[1].start_time + Hours(5) > call.block_now
    /\ ~call.blocks[1].is_active
    /\ call.blocks[2].is_active

\* C38: when the last block is active, the session start reported is the
\* start of that block.
C38_SessionStartIsActiveBlockStart ==
    (/\ call.op = "session_timing" /\ call.blocks /= <<>>
     /\ call.blocks[Len(call.blocks)].is_active)
        => call.result.session_start_time
               = Some(call.blocks[Len(call.blocks)].start_time)

(***************************************************************************)
(* ModelSpec: the grouping of entries by model of usage/cache.rs.  In this *)
(* section a model name is the sequence of its characters, so that the     *)
(* change of case and the substring tests are computed.                    *)
(***************************************************************************)
UpperCase ==
    [c \in {"C", "S", "O", "H", "G", "P", "T"} |->
        CASE c = "C" -> "c" [] c = "S" -> "s" [] c = "O" -> "o"
          [] c = "H" -> "h" [] c = "G" -> "g" [] c = "P" -> "p"
          [] c = "T" -> "t"]

\* str::to_lowercase, on the letters of the names below.
to_lowercase(s) ==
    [i \in 1..Len(s) |-> IF s[i] \in DOMAIN UpperCase THEN UpperCase[s[i]] ELSE s[i]]

\* str::contains.
contains(s, pat) ==
    \E i \in 1..(Len(s) - Len(pat) + 1) : SubSeq(s, i, i + Len(pat) - 1) = pat

claude_3_opus == <<"c", "l", "a", "u", "d", "e", "-", "3", "-", "o", "p", "u", "s">>
claude_3_5_sonnet == <<"c", "l", "a", "u", "d", "e", "-", "3", "-", "5", "-", "s", "o", "n", "n", "e", "t">>
claude_3_sonnet == <<"c", "l", "a", "u", "d", "e", "-", "3", "-", "s", "o", "n", "n", "e", "t">>
claude_3_5_haiku == <<"c", "l", "a", "u", "d", "e", "-", "3", "-", "5", "-", "h", "a", "i", "k", "u">>
claude_3_haiku == <<"c", "l", "a", "u", "d", "e", "-", "3", "-", "h", "a", "i", "k", "u">>

\* A normalisation that knows the 3.5 generation by its dashed form only.
normalize_model_name_dashed(model) ==
    LET model_lower == to_lowercase(model)
    IN  IF \E marker \in {<<"c", "l", "a", "u", "d", "e", "-", "o", "p", "u", "s", "-", "4", "-">>, <<"c", "l", "a", "u", "d", "e", "-", "s", "o", "n", "n", "e", "t", "-", "4", "-">>, <<"c", "l", "a", "u", "d", "e", "-", "h", "a", "i", "k", "u", "-", "4", "-">>, <<"o", "p", "u", "s", "-", "4", "-">>, <<"s", "o", "n", "n", "e", "t", "-", "4", "-">>, <<"h", "a", "i", "k", "u", "-", "4", "-">>} :
               contains(model_lower, marker)
        THEN model_lower
        ELSE IF contains(model_lower, <<"o", "p", "u", "s">>)
        THEN IF contains(model_lower, <<"4", "-">>) THEN model_lower ELSE claude_3_opus
        ELSE IF contains(model_lower, <<"s", "o", "n", "n", "e", "t">>)
        THEN IF contains(model_lower, <<"4", "-">>) THEN model_lower
             ELSE IF contains(model_lower, <<"3", "-", "5">>)
                  THEN claude_3_5_sonnet ELSE claude_3_sonnet
        ELSE IF contains(model_lower, <<"h", "a", "i", "k", "u">>)
        THEN IF contains(model_lower, <<"3", "-", "5">>)
             THEN claude_3_5_haiku ELSE claude_3_haiku
        ELSE model

\* usage/cache.rs normalize_model_name (usage/stats.rs has the same).
normalize_model_name(model) ==
    LET model_lower == to_lowercase(model)
    IN  IF \E marker \in {<<"c", "l", "a", "u", "d", "e", "-", "o", "p", "u", "s", "-", "4", "-">>, <<"c", "l", "a", "u", "d", "e", "-", "s", "o", "n", "n", "e", "t", "-", "4", "-">>, <<"c", "l", "a", "u", "d", "e", "-", "h", "a", "i", "k", "u", "-", "4", "-">>, <<"o", "p", "u", "s", "-", "4", "-">>, <<"s", "o", "n", "n", "e", "t", "-", "4", "-">>, <<"h", "a", "i", "k", "u", "-", "4", "-">>} :
               contains(model_lower, marker)
        THEN model_lower
        ELSE IF contains(model_lower, <<"o", "p", "u", "s">>)
        THEN IF contains(model_lower, <<"4", "-">>) THEN model_lower ELSE claude_3_opus
        ELSE IF contains(model_lower, <<"s", "o", "n", "n", "e", "t">>)
        THEN IF contains(model_lower, <<"4", "-">>) THEN model_lower
             ELSE IF contains(model_lower, <<"3", ".", "5">>)
                     \/ contains(model_lower, <<"3", "-", "5">>)
                  THEN claude_3_5_sonnet ELSE claude_3_sonnet
        ELSE IF contains(model_lower, <<"h", "a", "i", "k", "u">>)
        THEN IF contains(model_lower, <<"3", ".", "5">>)
                \/ contains(model_lower, <<"3", "-", "5">>)
             THEN claude_3_5_haiku ELSE claude_3_haiku
        ELSE model

\* The fields of a usage entry that the model distribution reads.
ModelEntry(model, input, output) ==
    [model |-> model, input_tokens |-> input, output_tokens |-> output]

\* The loop of calculate_model_distribution: the map from the normalised
\* model name to the statistics of the entries that carry it.
model_map(entries) ==
    [model_key \in {normalize_model_name(entries[i].model) : i \in DOMAIN entries} |->
        The({[model |-> model_key,
              input_tokens |-> SumField(mine, "input_tokens"),
              output_tokens |-> SumField(mine, "output_tokens"),
              message_count |-> Len(mine),
              total_tokens |-> SumField(mine, "input_tokens")
                                 + SumField(mine, "output_tokens")] :
                mine \in {SelectSeq(entries,
                             LAMBDA e : normalize_model_name(e.model) = model_key)}})]

\* The names: a prefix, a generation, a family and a tail, in upper and
\* lower case, among them the names of the claim.
NamePrefixes == {<<>>, <<"c", "l", "a", "u", "d", "e", "-">>, <<"C", "l", "a", "u", "d", "e", " ">>}
NameGenerations == {<<>>, <<"3", "-", "5", "-">>, <<"3", ".", "5", " ">>, <<"3", "-">>}
NameFamilies == {<<"s", "o", "n", "n", "e", "t">>, <<"S", "o", "n", "n", "e", "t">>, <<"o", "p", "u", "s">>, <<"h", "a", "i", "k", "u">>, <<"g", "p", "t">>, <<"G", "P", "T">>}
NameTails == {<<>>, <<"-", "4", "-", "2", "0", "2", "5", "0", "1", "0", "1">>, <<"-", "2", "0", "2", "4", "0", "6", "2", "0">>, <<"-", "4">>, <<"-", "2", "0", "2", "4", "-", "0", "6">>}

ModelNames ==
    {a \o b \o c \o d : a \in NamePrefixes, b \in NameGenerations,
                        c \in NameFamilies, d \in NameTails}

DatedSonnet35 == <<"c", "l", "a", "u", "d", "e", "-", "3", "-", "5", "-", "s", "o", "n", "n", "e", "t", "-", "2", "0", "2", "4", "0", "6", "2", "0">>
SpelledSonnet35 == <<"C", "l", "a", "u", "d", "e", " ", "3", ".", "5", " ", "S", "o", "n", "n", "e", "t">>
DatedSonnet4 == <<"c", "l", "a", "u", "d", "e", "-", "s", "o", "n", "n", "e", "t", "-", "4", "-", "2", "0", "2", "5", "0", "1", "0", "1">>

PairedNames ==
    {DatedSonnet35, SpelledSonnet35, DatedSonnet4, claude_3_sonnet,
     claude_3_5_sonnet, claude_3_opus, claude_3_5_haiku, <<"G", "P", "T", "-", "4">>, <<"c", "l", "a", "u", "d", "e", "-", "o", "p", "u", "s", "-", "4", "-", "2", "0", "2", "5", "0", "5", "1", "4">>}

ModelInit ==
    /\ fs = [root |-> "ok", files |-> [f \in Files |-> NoFile], clock |-> 1]
    /\ cache = EmptyCache
    /\ last = NoCall
    /\ seen = [files |-> [f \in Files |-> NoFile], by |-> "none"]
    /\ writes = 0
    /\ RaceIdle /\ hist = {}
    /\ SchedIdle
    /\ call \in {[op |-> "model", model |-> model] : model \in ModelNames}
                \cup {[op |-> "models",
                       entries |-> <<ModelEntry(a, 2, 1), ModelEntry(b, 3, 4)>>] :
                        a \in PairedNames, b \in PairedNames}

\* A model name is normalised, and the result normalised again.
NormalizeModelName ==
    /\ call.op = "model"
    /\ \E key \in {normalize_model_name(call.model)} :
          call' = [op |-> "normalize_model_name", model |-> call.model,
                   result |-> key, again |-> normalize_model_name(key)]
    /\ UNCHANGED <<cacheVars, raceVars, schedVars>>

\* The entries are grouped by model.
ModelDistribution ==
    /\ call.op = "models"
    /\ call' = [op |-> "calculate_model_distribution", entries |-> call.entries,
                result |-> model_map(call.entries)]
    /\ UNCHANGED <<cacheVars, raceVars, schedVars>>

ModelNext ==
    \/ NormalizeModelName
    \/ ModelDistribution

ModelSpec == ModelInit /\ [][ModelNext]_vars

\* The models of the two entries that were grouped.
GroupedModels == {call.entries[i].model : i \in DOMAIN call.entries}

\* C21: "claude-3-5-sonnet-20240620" and "Claude 3.5 Sonnet" fall into one
\* bucket of the model distribution; "claude-sonnet-4-20250101" and
\* "claude-3-sonnet" fall into two; and the normalisation of a normalised
\* name is that name.
C21_ModelBuckets ==
    /\ (call.op = "calculate_model_distribution"
        /\ GroupedModels = {DatedSonnet35, SpelledSonnet35})
           => Cardinality(DOMAIN call.result) = 1
    /\ (call.op = "calculate_model_distribution"
        /\ GroupedModels = {DatedSonnet4, claude_3_sonnet})
           => Cardinality(DOMAIN call.result) = 2
    /\ call.op = "calculate_model_distribution"
           => \A key \in DOMAIN call.result : normalize_model_name(key) = key
    /\ call.op = "normalize_model_name" => call.again = call.result

\* C21 witness: the dated and the spelled-out name of the 3.5 sonnet in
\* one bucket that holds both entries.
C21_Witness ==
    /\ call.op = "calculate_model_distribution"
    /\ call.entries[1].model = DatedSonnet35
    /\ call.entries[2].model = SpelledSonnet35
    /\ DOMAIN call.result = {claude_3_5_sonnet}
    /\ call.result[claude_3_5_sonnet].message_count = 2

(***************************************************************************)
(* CostSpec: the cost totals of calculate_usage_data in floating point.    *)
(* In this section a cost is a binary floating-point number of             *)
(* MantissaBits bits, m * 2^e with m odd or zero, in micro-dollars, and    *)
(* every sum is rounded to the nearest such number, ties to even, as the   *)
(* sums of f64 are; the scaling by 1_000_000.0 is the change of unit.      *)
(***************************************************************************)
MantissaBits == 4

RECURSIVE Pow2(_)
Pow2(n) == IF n = 0 THEN 1 ELSE 2 * Pow2(n - 1)

Float(m, e) == [m |-> m, e |-> e]

\* m * 2^e with the factors of two moved from m into e.
RECURSIVE Canonical(_, _)
Canonical(m, e) ==
    IF m = 0 THEN Float(0, 0)
    ELSE IF m % 2 = 0 THEN Canonical(m \div 2, e + 1)
    ELSE Float(m, e)

\* The number of low bits n has to lose to fit the mantissa.
RECURSIVE ExcessBits(_)
ExcessBits(n) == IF n < Pow2(MantissaBits) THEN 0 ELSE 1 + ExcessBits(n \div 2)

\* n * 2^e rounded to the mantissa: to nearest, ties to even.
RoundToNearestEven(n, e) ==
    The({IF k = 0 THEN Canonical(n, e)
         ELSE The({IF 2 * r > Pow2(k) \/ (2 * r = Pow2(k) /\ q % 2 = 1)
                   THEN Canonical(q + 1, e + k)
                   ELSE Canonical(q, e + k) :
                     q \in {n \div Pow2(k)}, r \in {n % Pow2(k)}}) :
            k \in {ExcessBits(n)}})

\* An addition that keeps half the bits of the mantissa.
FloatAddCoarse(a, b) ==
    LET low == Min2(a.e, b.e)
        n == a.m * Pow2(a.e - low) + b.m * Pow2(b.e - low)
        k == ExcessBits(n * Pow2(MantissaBits - MantissaBits \div 2))
    IN  Canonical((n \div Pow2(k)) * Pow2(k), low)

\* a + b of f64.
FloatAdd(a, b) ==
    The({RoundToNearestEven(a.m * Pow2(a.e - low) + b.m * Pow2(b.e - low), low) :
            low \in {Min2(a.e, b.e)}})

\* f64::round: to the nearest integer, halves away from zero.
FloatRound(a) ==
    IF a.e >= 0 THEN a.m * Pow2(a.e)
    ELSE IF 2 * (a.m % Pow2(-a.e)) >= Pow2(-a.e)
         THEN a.m \div Pow2(-a.e) + 1
         ELSE a.m \div Pow2(-a.e)

\* (x * 1_000_000.0).round() / 1_000_000.0: a whole number of micro-dollars,
\* as the nearest number of the format.
round6_float(a) == RoundToNearestEven(FloatRound(a), 0)

\* total += entry.cost_usd over the entries in their order, then rounded.
RECURSIVE FloatSum(_, _)
FloatSum(costs, total) ==
    IF costs = <<>> THEN total
    ELSE FloatSum(Tail(costs), FloatAdd(total, Head(costs)))

CostsOf(entries) == [i \in 1..Len(entries) |-> entries[i].cost_usd]

\* usage/cache.rs calculate_usage_data, the cost totals: per project, per
\* day, and overall as the sum of the projects' rounded totals.
cost_totals(all_entries) ==
    The({[projects |-> projects,
          daily_usage |->
              [d \in {all_entries[i].date : i \in DOMAIN all_entries} |->
                  round6_float(FloatSum(
                      CostsOf(SelectSeq(all_entries, LAMBDA e : e.date = d)),
                      Float(0, 0)))],
          overall_stats |->
              round6_float(FloatSum(
                  [i \in 1..Len(ProjectOrder) |->
                      IF ProjectOrder[i] \in DOMAIN projects
                      THEN projects[ProjectOrder[i]] ELSE Float(0, 0)],
                  Float(0, 0)))] :
        projects \in
            {[p \in {all_entries[i].project : i \in DOMAIN all_entries} |->
                 round6_float(FloatSum(
                     CostsOf(SelectSeq(all_entries, LAMBDA e : e.project = p)),
                     Float(0, 0)))]}})

\* The fields of a usage entry that the cost totals read.
CostEntry(project, date, cost) ==
    [project |-> project, date |-> date, cost_usd |-> cost]

\* The inputs: up to MaxCosts entries of two projects and two days, with
\* costs from an eighth of a micro-dollar to fifteen micro-dollars.
MaxCosts == 3

CostValues == {Float(m, e) : m \in {1, 3, 9, 15}, e \in {-3, -2, 0}}

CostEntries ==
    {CostEntry(pd[1], pd[2], c) :
        pd \in {<<"D--a", 1>>, <<"D--a", 2>>, <<"D--b", 1>>}, c \in CostValues}

CostInit ==
    /\ fs = [root |-> "ok", files |-> [f \in Files |-> NoFile], clock |-> 1]
    /\ cache = EmptyCache
    /\ last = NoCall
    /\ seen = [files |-> [f \in Files |-> NoFile], by |-> "none"]
    /\ writes = 0
    /\ RaceIdle /\ hist = {}
    /\ SchedIdle
    /\ call \in {[op |-> "entries", all_entries |-> entries] :
                    entries \in SeqsUpTo(CostEntries, MaxCosts)}

\* The cost totals of the entries are computed, in the order the entries
\* come in.
CostTotals ==
    /\ call.op = "entries"
    /\ call' = [op |-> "cost_totals", all_entries |-> call.all_entries,
                result |-> cost_totals(call.all_entries)]
    /\ UNCHANGED <<cacheVars, raceVars, schedVars>>

CostNext == CostTotals

CostSpec == CostInit /\ [][CostNext]_vars

\* The entries in every order.
Reorderings(entries) ==
    {[i \in 1..Len(entries) |-> entries[f[i]]] :
        f \in Permutations(1..Len(entries))}

RECURSIVE WholeSum(_)
WholeSum(entries) ==
    IF entries = <<>> THEN 0
    ELSE FloatRound(Head(entries).cost_usd) + WholeSum(Tail(entries))

RoundedCosts(entries) ==
    /\ \A i \in DOMAIN entries : entries[i].cost_usd.e >= 0
    /\ WholeSum(entries) < Pow2(MantissaBits)

RecordedMtime == 2
DiskMtimes == {RecordedMtime - 1, RecordedMtime, RecordedMtime + 1}

DiffDisks ==
    [Files -> {NoFile} \cup {[exists |-> TRUE, len |-> 1, mtime |-> t,
                              readable |-> TRUE] : t \in DiskMtimes}]

DiffRegistries ==
    {[f \in recorded |-> [mtime |-> RecordedMtime, entries |-> <<>>]] :
        recorded \in SUBSET Files}

DiffListings ==
    {SelectSeq(FileOrder, LAMBDA f : f \in listing) : listing \in SUBSET Files}

DiffInit ==
    /\ fs \in {[root |-> "ok", files |-> files, clock |-> RecordedMtime + 2] :
                  files \in DiffDisks}
    /\ cache \in {[EmptyCache EXCEPT !.file_cache = registry] :
                     registry \in DiffRegistries}
    /\ last = NoCall
    /\ seen = [files |-> [f \in Files |-> NoFile], by |-> "none"]
    /\ writes = 0
    /\ RaceIdle /\ hist = {}
    /\ SchedIdle
    /\ call \in {[op |-> "listing", current_files |-> listing] :
                    listing \in DiffListings}

\* The listed files are compared with the registry.
CheckFileChanges ==
    /\ call.op = "listing"
    /\ call' = [op |-> "check_file_changes", current_files |-> call.current_files,
                result |-> check_file_changes(cache, call.current_files, fs)]
    /\ UNCHANGED <<cacheVars, raceVars, schedVars>>

DiffNext == CheckFileChanges

DiffSpec == DiffInit /\ [][DiffNext]_vars

Listed == SeqRange(call.current_files)
Recorded == DOMAIN cache.file_cache
OnDisk == {f \in Files : fs.files[f].exists}
NewerOnDisk ==
    {f \in OnDisk \cap Recorded : fs.files[f].mtime > cache.file_cache[f].mtime}

\* The three sets do not meet, and a listed file that is not newer on disk
\* than its record is in none of them.
DisjointChanges ==
    /\ SeqRange(call.result.new_files) \cap SeqRange(call.result.modified) = {}
    /\ SeqRange(call.result.new_files) \cap SeqRange(call.result.deleted) = {}
    /\ SeqRange(call.result.modified) \cap SeqRange(call.result.deleted) = {}
    /\ \A f \in (Listed \cap Recorded \cap OnDisk) \ NewerOnDisk :
          f \notin SeqRange(call.result.new_files)
               \cup SeqRange(call.result.modified)
               \cup SeqRange(call.result.deleted)

read_session_file(file) == IF file.ok THEN Ok(read_jsonl_file(file.val)) ELSE file

\* usage/reader.rs load_project_entries, the loop over the entries of one
\* file: an entry with a message id and a request id other than "unknown"
\* goes under these ids, any other under a key of its own.
RECURSIVE insert_entries(_, _, _)
insert_entries(entries, entries_by_key, entry_counter) ==
    IF entries = <<>> THEN [entries_by_key |-> entries_by_key,
                            entry_counter |-> entry_counter]
    ELSE LET entry == Head(entries)
             has_message_id == entry.message_id /= ""
             has_request_id == entry.request_id /= "" /\ entry.request_id /= "unknown"
             counter == IF has_message_id /\ has_request_id THEN entry_counter
                        ELSE entry_counter + 1
             key == IF has_message_id /\ has_request_id
                    THEN entry.message_id \o ":" \o entry.request_id
                    ELSE "no_dedup_" \o ToString(counter) \o "_"
                             \o format_timestamp(entry.timestamp)
         IN  insert_entries(Tail(entries), MapInsert(entries_by_key, key, entry),
                            counter)

\* The loop over the session files; a file that cannot be read is logged.
RECURSIVE load_session_files(_, _)
load_session_files(session_files, state) ==
    IF session_files = <<>> THEN state
    ELSE The({load_session_files(
                  Tail(session_files),
                  IF r.ok THEN insert_entries(r.val, state.entries_by_key,
                                              state.entry_counter)
                  ELSE state) :
                r \in {read_session_file(Head(session_files))}})

load_project_entries(session_files) ==
    sort_by_timestamp(MapValues(
        load_session_files(session_files,
                           [entries_by_key |-> <<>>, entry_counter |-> 0]).entries_by_key))

\* usage/cache.rs full_load, the entries it gathers for one project: those
\* of every file that can be read, one file after the other.
full_load_project_entries(session_files) ==
    Concat([i \in 1..Len(session_files) |->
               The({IF r.ok THEN r.val ELSE <<>> :
                       r \in {read_session_file(session_files[i])}})])

\* The statistics of the project, when it has entries: both ways skip a
\* project without, and sum in the same way.
PathProject(session_files) ==
    [encoded_path |-> "D--a", decoded_path |-> decode_project_path("D--a"),
     display_name |-> get_display_name(decode_project_path("D--a")),
     session_files |-> [i \in 1..Len(session_files) |-> FileOrder[i]]]

stats_if_any(session_files, entries) ==
    IF entries = <<>> THEN None
    ELSE Some(project_stats(PathProject(session_files), entries))

\* The files: up to MaxPathLines lines each, among them events with the
\* same ids and different counts, an event without a request id, an event
\* with other ids.
MaxPathLines == 2

PathLines ==
    {EventLine(ReaderEvent(Some("a"), Some("r"), TsUtc(65), 10, 5)),
     EventLine(ReaderEvent(Some("a"), Some("r"), TsUtc(70), 20, 10)),
     EventLine(ReaderEvent(Some("b"), None, TsUtc(65), 3, 0)),
     EventLine(ReaderEvent(Some("b"), Some("r"), TsUtc(75), 1, 1))}

PathFiles == {Err("Io")} \cup {Ok(lines) : lines \in SeqsUpTo(PathLines, MaxPathLines)}

PathInit ==
    /\ fs = [root |-> "ok", files |-> [f \in Files |-> NoFile], clock |-> 1]
    /\ cache = EmptyCache
    /\ last = NoCall
    /\ seen = [files |-> [f \in Files |-> NoFile], by |-> "none"]
    /\ writes = 0
    /\ RaceIdle /\ hist = {}
    /\ SchedIdle
    /\ call \in {[op |-> "corpus", session_files |-> <<first, second>>] :
                    first \in PathFiles, second \in PathFiles}

\* The project is loaded both ways.
LoadBothWays ==
    /\ call.op = "corpus"
    /\ call' = [op |-> "loaded", session_files |-> call.session_files,
                uncached |-> stats_if_any(call.session_files,
                                 load_project_entries(call.session_files)),
                cached |-> stats_if_any(call.session_files,
                               full_load_project_entries(call.session_files))]
    /\ UNCHANGED <<cacheVars, raceVars, schedVars>>

PathNext == LoadBothWays

PathSpec == PathInit /\ [][PathNext]_vars

\* C36: on the same files, get_usage_data with an empty filter and
\* full_load give the project the same message count and the same token
\* totals, also when two files hold an event with the same message id and
\* request id.
C36_PathsAgree ==
    call.op = "loaded"
        => \/ call.uncached = None /\ call.cached = None
           \/ /\ IsSome(call.uncached) /\ IsSome(call.cached)
              /\ \A field \in {"message_count", "total_input_tokens",
                               "total_output_tokens", "cache_creation_tokens",
                               "cache_read_tokens"} :
                    Unwrap(call.uncached)[field] = Unwrap(call.cached)[field]

====
